---- MODULE Spec2Model ----
(***************************************************************************)
(* Verification model of the openvote STARK sub-programs (Merkle, CDS,     *)
(* Tally), their provers and the on-chain verifier entry points.           *)
(*                                                                         *)
(* Scaling.  The base field f63, its degree-6 extension used for curve     *)
(* coordinates and the 255-bit scalar multiplications cannot be enumerated *)
(* (and exceed the integer range of the model checker), so the model keeps *)
(* the register wiring, the flags and the row arithmetic of the source and *)
(* scales the sizes:                                                       *)
(*   field            F_7            (source: f63::BaseElement)            *)
(*   coordinate       F_7[u]/(u^2+1) (source: degree 6, POINT_COORDINATE_  *)
(*                    WIDTH = 6)                                           *)
(*   curve            y^2 = x^3 + (1 + 3u), of prime order 37              *)
(*   limb             LIMB_BITS bits (source: 64; 63 = LIMB_BITS - 1,      *)
(*                    126 = 2*(LIMB_BITS-1), 510 = 2*(4*LIMB_BITS-1))      *)
(* Rust register index k is element k+1 of a row (sequences are 1-based);  *)
(* Reg and Slice take the Rust indices.                                    *)
(***************************************************************************)
EXTENDS Integers, Sequences, FiniteSets, TLC

\* ------------------------------------------------------------------------
\* Sizes
\* ------------------------------------------------------------------------

\* modulus of the base field (scaled)
MODULUS == 7

\* number of base-field elements of one point coordinate (scaled)
POINT_COORDINATE_WIDTH == 2

AFFINE_POINT_WIDTH == 2 * POINT_COORDINATE_WIDTH

PROJECTIVE_POINT_WIDTH == 3 * POINT_COORDINATE_WIDTH

\* Rescue: rate, state, rounds per permutation (scaled)
RATE_WIDTH == 4

STATE_WIDTH == 2 * RATE_WIDTH

DIGEST_SIZE == RATE_WIDTH

NUM_HASH_ROUNDS == 3

HASH_CYCLE_LENGTH == NUM_HASH_ROUNDS + 1

\* depth of the eligibility tree (scaled)
TREE_DEPTH == 2

MERKLE_TRACE_WIDTH == STATE_WIDTH + 1

MERKLE_CYCLE_LENGTH == (TREE_DEPTH + 2) * HASH_CYCLE_LENGTH

\* largest number of items of a batch
MaxItems == 2

\* the largest number of votes of a tally
MaxVotes == 4

\* the largest number of voters of an election
MaxVoters == 4

\* the width in bits given to a u32
WordBits == 16

\* CDS: bits of a limb of the challenge (scaled), hash iterations (scaled)
LIMB_BITS == 4

NUM_HASH_ITER == 7

TOTAL_HASH_LENGTH == HASH_CYCLE_LENGTH * NUM_HASH_ITER

SCALAR_MUL_LENGTH == 2 * (4 * LIMB_BITS - 1)

CDS_TRACE_WIDTH == 5 * PROJECTIVE_POINT_WIDTH + 3 + 4 + STATE_WIDTH

NROWS_PER_PHASE == SCALAR_MUL_LENGTH + 2

CDS_CYCLE_LENGTH == 2 * NROWS_PER_PHASE

PROOF_NUM_POINTS == 4

PROOF_NUM_SCALARS == 4

HASH_MSG_LENGTH == NUM_HASH_ITER * RATE_WIDTH

\* ------------------------------------------------------------------------
\* Sequences as Rust slices
\* ------------------------------------------------------------------------

Reg(row, k) == row[k + 1]

\* row[a..b]
Slice(row, a, b) == [i \in 1..(b - a) |-> row[a + i]]

Zeros(n) == [i \in 1..n |-> 0]

\* dst[a..a+Len(src)].copy_from_slice(src)
CopyInto(dst, a, src) ==
    [i \in 1..Len(dst) |-> IF i > a /\ i <= a + Len(src) THEN src[i - a] ELSE dst[i]]

RECURSIVE Pow(_, _)
Pow(b, e) == IF e = 0 THEN 1 ELSE b * Pow(b, e - 1)

IsPowerOfTwo(n) == \E k \in 0..16 : n = Pow(2, k)

\* (v >> k) & 1
Bit(v, k) == (v \div Pow(2, k)) % 2

\* ------------------------------------------------------------------------
\* Base field
\* ------------------------------------------------------------------------

Fp == 0..(MODULUS - 1)

FAdd(a, b) == (a + b) % MODULUS

FSub(a, b) == (a - b + MODULUS) % MODULUS

FMul(a, b) == (a * b) % MODULUS

FNeg(a) == (MODULUS - a) % MODULUS

\* inverse, with inv(0) = 0
FInv(a) == IF a % MODULUS = 0 THEN 0 ELSE CHOOSE x \in Fp : (a * x) % MODULUS = 1

\* utils: not(flag) = 1 - flag, is_binary(v) = v^2 - v, are_equal(a, b) = a - b
Not(flag) == FSub(1, flag)

IsBinary(v) == FSub(FMul(v, v), v)

AreEqual(a, b) == FSub(a, b)

\* ------------------------------------------------------------------------
\* Curve: coordinates in F_p[u]/(u^2 + 1), points as sequences of coordinates
\* ------------------------------------------------------------------------

\* sum and difference of coordinates
XAdd(a, b) == <<FAdd(a[1], b[1]), FAdd(a[2], b[2])>>

XSub(a, b) == <<FSub(a[1], b[1]), FSub(a[2], b[2])>>

\* product and inverse of coordinates
XMul(a, b) == <<FSub(FMul(a[1], b[1]), FMul(a[2], b[2])),
                FAdd(FMul(a[1], b[2]), FMul(a[2], b[1]))>>

XInv(a) ==
    LET ninv == FInv(FAdd(FMul(a[1], a[1]), FMul(a[2], a[2])))
    IN  <<FMul(a[1], ninv), FMul(FNeg(a[2]), ninv)>>

\* three times the constant b of the curve y^2 = x^3 + b
CURVE_B3 == <<3, 2>>

\* order of the group of points
GROUP_ORDER == 37

GENERATOR == <<1, 6, 1, 4>>

IDENTITY == <<0, 0, 1, 0, 0, 0>>

\* coordinate k (0 = x, 1 = y, 2 = z) of a point
Coord(P, k) == <<P[2 * k + 1], P[2 * k + 2]>>

\* the complete addition law on projective points, from the products of coordinates
AddFrom(a, b2, yy, e, t3, t4) ==
    XSub(XMul(t3, XSub(yy, b2)), XMul(t4, e))
        \o XAdd(XMul(XSub(yy, b2), XAdd(yy, b2)), XMul(e, a))
        \o XAdd(XMul(XAdd(yy, b2), t4), XMul(a, t3))

\* ecc::compute_add
compute_add(P, Q) ==
    IF Len(P) # Len(Q) THEN IDENTITY ELSE
    AddFrom(XMul(<<3, 0>>, XMul(Coord(P, 0), Coord(Q, 0))),
            XMul(CURVE_B3, XMul(Coord(P, 2), Coord(Q, 2))),
            XMul(Coord(P, 1), Coord(Q, 1)),
            XMul(CURVE_B3, XAdd(XMul(Coord(P, 0), Coord(Q, 2)),
                                XMul(Coord(Q, 0), Coord(P, 2)))),
            XAdd(XMul(Coord(P, 0), Coord(Q, 1)), XMul(Coord(Q, 0), Coord(P, 1))),
            XAdd(XMul(Coord(P, 1), Coord(Q, 2)), XMul(Coord(Q, 1), Coord(P, 2))))

\* ecc::compute_add_mixed: the second point is affine
compute_add_mixed(P, A) == compute_add(P, A \o <<1, 0>>)

\* ecc::compute_double
compute_double(P) == compute_add(P, P)

\* ecc::compute_negation_projective, ecc::compute_negation_affine
compute_negation(P) ==
    SubSeq(P, 1, 2) \o <<FNeg(P[3]), FNeg(P[4])>> \o SubSeq(P, 5, Len(P))

\* ecc::reduce_to_affine
reduce_to_affine(P) ==
    XMul(Coord(P, 0), XInv(Coord(P, 2))) \o XMul(Coord(P, 1), XInv(Coord(P, 2)))

RECURSIVE ScalarMul(_, _)
\* ProjectivePoint * Scalar
ScalarMul(k, P) ==
    IF k = 0 THEN IDENTITY
    ELSE LET half == ScalarMul(k \div 2, P)
         IN  IF Len(half) # Len(P) THEN IDENTITY
             ELSE IF k % 2 = 0 THEN compute_double(half)
             ELSE compute_add(compute_double(half), P)

\* ------------------------------------------------------------------------
\* Rescue permutation (one abstract round shared by prover and AIR)
\* ------------------------------------------------------------------------

\* round constant of register i (0-based) in round `round`
ARK(round, i) == (3 * round + 2 * i + 1) % MODULUS

\* HASH_CYCLE_MASK: 1 on the rounds of a hash cycle, 0 on its last row
HASH_CYCLE_MASK(r) == IF r % HASH_CYCLE_LENGTH < NUM_HASH_ROUNDS THEN 1 ELSE 0

\* rescue::apply_round(state, step)
ApplyRound(state, step) ==
    [i \in 1..STATE_WIDTH |->
        (Pow(state[i], 5) + 2 * Pow(state[(i % STATE_WIDTH) + 1], 5)
            + ARK(step % HASH_CYCLE_LENGTH, i - 1)) % MODULUS]

\* rescue::enforce_round: flag * (next - round(current)), per register
EnforceRound(current, next, step, flag) ==
    LET round == ApplyRound(current, step)
    IN  [i \in 1..STATE_WIDTH |-> FMul(flag, AreEqual(next[i], round[i]))]

RECURSIVE ApplyRounds(_, _)
ApplyRounds(state, n) ==
    IF n = 0 THEN state ELSE ApplyRound(ApplyRounds(state, n - 1), n - 1) \o <<>>

ApplyPermutation(state) == ApplyRounds(state, NUM_HASH_ROUNDS)

\* Rescue63::merge(&[left, right])
RescueMerge(left, right) == Slice(ApplyPermutation(left \o right), 0, RATE_WIDTH) \o <<>>

\* Rescue63::digest of one rate-sized chunk
RescueDigest(msg) == Slice(ApplyPermutation(msg \o Zeros(RATE_WIDTH)), 0, RATE_WIDTH) \o <<>>

\* ------------------------------------------------------------------------
\* Merkle membership: reference verifier and tree construction
\* ------------------------------------------------------------------------

PadTo(seq, n) == seq \o Zeros(n - Len(seq))

\* merkle::hash_voting_key
hash_voting_key(voting_key) ==
    LET hash_message == PadTo(Slice(voting_key, 0, POINT_COORDINATE_WIDTH), DIGEST_SIZE)
        h == RescueDigest(hash_message)
        message_chunk ==
            PadTo(Slice(voting_key, POINT_COORDINATE_WIDTH, AFFINE_POINT_WIDTH), DIGEST_SIZE)
    IN  RescueMerge(h, message_chunk)

\* merkle::merge_hash
merge_hash(left, right) == RescueMerge(left, right)

RECURSIVE MerklePathFrom(_, _, _, _)
\* the loop of verify_merlke_proof from level i on
MerklePathFrom(h, branch, hash_index, i) ==
    IF i = TREE_DEPTH THEN h
    ELSE LET branch_node == Slice(branch, i * DIGEST_SIZE, (i + 1) * DIGEST_SIZE)
             nh == IF Bit(hash_index, i) = 0
                   THEN merge_hash(h, branch_node)
                   ELSE merge_hash(branch_node, h)
         IN  MerklePathFrom(nh, branch, hash_index, i + 1)

\* merkle::verify_merlke_proof
verify_merlke_proof(tree_root, voting_key, branch, hash_index) ==
    MerklePathFrom(hash_voting_key(voting_key), branch, hash_index, 0) = tree_root

\* merkle::naive_verify_merkle_proofs
naive_verify_merkle_proofs(tree_root, voting_keys, branches, hash_indices) ==
    \A i \in 1..Len(voting_keys) :
        verify_merlke_proof(tree_root, voting_keys[i], branches[i], hash_indices[i])

NumLeaves == Pow(2, TREE_DEPTH)

\* a leaf that holds no voting key (random in the source: one of two fillings)
FillerLeaf(seed, index) ==
    [i \in 1..DIGEST_SIZE |-> (seed + 2 * index + i) % MODULUS]

\* the leaves of build_merkle_tree_from: key hashes at their indices, fillers elsewhere
TreeLeaves(voting_keys, hash_indices, seed) ==
    [l \in 1..NumLeaves |->
        IF \E k \in 1..Len(voting_keys) : hash_indices[k] = l - 1
        THEN hash_voting_key(
                voting_keys[CHOOSE k \in 1..Len(voting_keys) : hash_indices[k] = l - 1]) \o <<>>
        ELSE FillerLeaf(seed, l - 1) \o <<>>] \o <<>>

RECURSIVE SubtreeHash(_, _, _)
\* the value calculate_merkle_proof returns for tree = leaves[lo .. lo+len)
SubtreeHash(leaves, lo, len) ==
    IF len = 1 THEN leaves[lo + 1]
    ELSE merge_hash(SubtreeHash(leaves, lo, len \div 2),
                    SubtreeHash(leaves, lo + len \div 2, len \div 2))

\* the branch calculate_merkle_proof writes for the leaf at hash_index:
\* at level j the sibling subtree of 2^j leaves
BranchOf(leaves, hash_index) ==
    LET node(j) ==
            LET hi == hash_index \div Pow(2, j)
                sib == IF hi % 2 = 0 THEN hi + 1 ELSE hi - 1
            IN  SubtreeHash(leaves, sib * Pow(2, j), Pow(2, j))
    IN  [e \in 1..(TREE_DEPTH * DIGEST_SIZE) |->
            node((e - 1) \div DIGEST_SIZE)[((e - 1) % DIGEST_SIZE) + 1]]

\* merkle::build_merkle_tree_from: (tree_root, branches)
build_merkle_tree_from(voting_keys, hash_indices, seed) ==
    LET leaves == TreeLeaves(voting_keys, hash_indices, seed)
    IN  [tree_root |-> SubtreeHash(leaves, 0, NumLeaves) \o <<>>,
         branches |-> [k \in 1..Len(voting_keys) |-> BranchOf(leaves, hash_indices[k]) \o <<>>]
                        \o <<>>]

\* ------------------------------------------------------------------------
\* Merkle membership: trace
\* ------------------------------------------------------------------------

\* merkle::trace::init_merkle_verification_state
init_merkle_verification_state(voting_key) ==
    CopyInto(Zeros(MERKLE_TRACE_WIDTH), 1, Slice(voting_key, 0, POINT_COORDINATE_WIDTH))

\* a hash message whose branch is left out
MerkleHashMessageNoBranch(voting_key, branch) ==
    CopyInto(Zeros((TREE_DEPTH + 1) * RATE_WIDTH), 0,
             Slice(voting_key, POINT_COORDINATE_WIDTH, AFFINE_POINT_WIDTH))

\* the hash message MerkleProver::build_trace prepares for item i
MerkleHashMessage(voting_key, branch) ==
    CopyInto(
        CopyInto(Zeros((TREE_DEPTH + 1) * RATE_WIDTH), 0,
                 Slice(voting_key, POINT_COORDINATE_WIDTH, AFFINE_POINT_WIDTH)),
        RATE_WIDTH, branch)

\* an update that absorbs every chunk on the right, whatever the position bit
update_merkle_verification_state_right(step, hash_message, hash_index, state) ==
    LET rescue_step == step % HASH_CYCLE_LENGTH IN
    IF rescue_step < NUM_HASH_ROUNDS
    THEN CopyInto(state, 1, ApplyRound(Slice(state, 1, STATE_WIDTH + 1), step))
    ELSE LET index == step \div HASH_CYCLE_LENGTH
             chunk == Slice(hash_message, RATE_WIDTH * index, RATE_WIDTH * (index + 1))
         IN  CopyInto(CopyInto(state, RATE_WIDTH + 1, chunk), 0,
                      <<Bit(hash_index, index)>>)

\* merkle::trace::update_merkle_verification_state
update_merkle_verification_state(step, hash_message, hash_index, state) ==
    LET rescue_step == step % HASH_CYCLE_LENGTH IN
    IF rescue_step < NUM_HASH_ROUNDS
    THEN CopyInto(state, 1, ApplyRound(Slice(state, 1, STATE_WIDTH + 1), step))
    ELSE LET index == step \div HASH_CYCLE_LENGTH
             hash_index_bit == Bit(hash_index, index)
             chunk == Slice(hash_message, RATE_WIDTH * index, RATE_WIDTH * (index + 1))
             moved ==
                IF hash_index_bit = 0
                THEN CopyInto(state, RATE_WIDTH + 1, chunk)
                ELSE CopyInto(
                        CopyInto(state, RATE_WIDTH + 1, Slice(state, 1, RATE_WIDTH + 1)),
                        1, chunk)
         IN  CopyInto(moved, 0, <<hash_index_bit>>)

\* ------------------------------------------------------------------------
\* Merkle membership: AIR
\* ------------------------------------------------------------------------

\* MerkleAir::get_periodic_column_values, at row r of the trace
MerkleHashFlag(r) == HASH_CYCLE_MASK(r % MERKLE_CYCLE_LENGTH)

MerkleCycleMask(r) == IF r % MERKLE_CYCLE_LENGTH = MERKLE_CYCLE_LENGTH - 1 THEN 0 ELSE 1

\* field::enforce_copy: flag * (next - current), per register
EnforceCopy(current, next, flag) ==
    [i \in 1..Len(current) |-> FMul(flag, AreEqual(next[i], current[i]))]

\* MerkleAir::evaluate_transition: the constraint evaluations at row r
MerkleEvaluateTransition(current, next, r) ==
    LET hash_flag == MerkleHashFlag(r)
        cycle_mask == MerkleCycleMask(r)
        round == EnforceRound(Slice(current, 1, STATE_WIDTH + 1),
                              Slice(next, 1, STATE_WIDTH + 1), r, FMul(cycle_mask, hash_flag))
        hash_init_flag == FMul(cycle_mask, Not(hash_flag))
        hash_index_bit == Reg(next, 0)
        copy0 == EnforceCopy(Slice(current, 1, RATE_WIDTH + 1), Slice(next, 1, RATE_WIDTH + 1),
                             FMul(hash_init_flag, Not(hash_index_bit)))
        copy1 == EnforceCopy(Slice(current, 1, RATE_WIDTH + 1),
                             Slice(next, RATE_WIDTH + 1, STATE_WIDTH + 1),
                             FMul(hash_init_flag, hash_index_bit))
    IN  [k \in 1..MERKLE_TRACE_WIDTH |->
            IF k = 1 THEN FMul(hash_init_flag, IsBinary(hash_index_bit))
            ELSE IF k <= RATE_WIDTH + 1
                 THEN FAdd(round[k - 1], copy0[k - 1])
                 ELSE FAdd(round[k - 1], copy1[k - 1 - RATE_WIDTH])]

MerkleTransitionHolds(current, next, r) ==
    \A k \in 1..MERKLE_TRACE_WIDTH : MerkleEvaluateTransition(current, next, r)[k] = 0

\* key assertions without the y coordinates
MerkleKeyAssertionsNoY(voting_keys) ==
    UNION {
        {<<i + 1, (key_index - 1) * MERKLE_CYCLE_LENGTH, voting_keys[key_index][i + 1]>> :
            i \in 0..(POINT_COORDINATE_WIDTH - 1)}
        \cup
        {<<i, (key_index - 1) * MERKLE_CYCLE_LENGTH, 0>> :
            i \in (POINT_COORDINATE_WIDTH + 1)..STATE_WIDTH}
        \cup
        {<<0, (key_index - 1) * MERKLE_CYCLE_LENGTH + HASH_CYCLE_LENGTH, 0>>}
        : key_index \in 1..Len(voting_keys)}

\* MerkleAir::get_assertions: the set of <<register, row, value>>
MerkleKeyAssertions(voting_keys) ==
    UNION {
        {<<i + 1, (key_index - 1) * MERKLE_CYCLE_LENGTH, voting_keys[key_index][i + 1]>> :
            i \in 0..(POINT_COORDINATE_WIDTH - 1)}
        \cup
        {<<i + RATE_WIDTH + 1, (key_index - 1) * MERKLE_CYCLE_LENGTH + HASH_CYCLE_LENGTH,
           voting_keys[key_index][i + POINT_COORDINATE_WIDTH + 1]>> :
            i \in 0..(POINT_COORDINATE_WIDTH - 1)}
        \cup
        {<<i, (key_index - 1) * MERKLE_CYCLE_LENGTH, 0>> :
            i \in (POINT_COORDINATE_WIDTH + 1)..STATE_WIDTH}
        \cup
        {<<0, (key_index - 1) * MERKLE_CYCLE_LENGTH + HASH_CYCLE_LENGTH, 0>>}
        : key_index \in 1..Len(voting_keys)}

\* the periodic END OF TRACE assertions, over a trace of n cycles
MerkleRootAssertions(tree_root, n) ==
    {<<i + 1, c * MERKLE_CYCLE_LENGTH + MERKLE_CYCLE_LENGTH - 1, tree_root[i + 1]>> :
        i \in 0..(RATE_WIDTH - 1), c \in 0..(n - 1)}

MerkleGetAssertions(tree_root, voting_keys, n) ==
    MerkleKeyAssertions(voting_keys) \cup MerkleRootAssertions(tree_root, n)

\* the assertions of set `as` that row `row`, at position r of the trace, violates
FailedAt(as, row, r) == {a \in as : a[2] = r /\ Reg(row, a[1]) # a[3]}


\* ------------------------------------------------------------------------
\* CDS proofs: reference prover and verifier
\* ------------------------------------------------------------------------

\* an affine point as a projective point
Projective(A) == A \o <<1, 0>>

\* cds::trace::prepare_hash_message, cds::points_to_hash_message
prepare_hash_message(voter_index, voting_key, encrypted_vote, proof_points) ==
    PadTo(<<voter_index % 256>> \o Zeros(AFFINE_POINT_WIDTH - 1)
            \o voting_key \o encrypted_vote \o proof_points, HASH_MSG_LENGTH)

RECURSIVE HashFrom(_, _, _)
\* the loop of hash_message_bytes from chunk i on
HashFrom(h, message, i) ==
    IF i = NUM_HASH_ITER \/ Len(h) # DIGEST_SIZE THEN h
    ELSE HashFrom(RescueMerge(h, Slice(message, RATE_WIDTH * i, RATE_WIDTH * (i + 1))),
                  message, i + 1)

\* cds::hash_message_bytes: the four words the 32 bytes are written from
hash_message_bytes(message) ==
    Slice(HashFrom(RescueDigest(Slice(message, 0, RATE_WIDTH)), message, 1), 0, 4) \o <<>>

\* bit k of c_bytes.as_bits::<Lsb0>(): word k / LIMB_BITS, little-endian
ChallengeBit(words, k) == Bit(words[(k \div LIMB_BITS) + 1], k % LIMB_BITS)

\* Scalar::from_bits(c_bits)
ScalarFromBits(words) ==
    (words[1] + Pow(2, LIMB_BITS) * words[2] + Pow(2, 2 * LIMB_BITS) * words[3]
        + Pow(2, 3 * LIMB_BITS) * words[4]) % GROUP_ORDER

\* the blinding key of voter i (1-based): keys before it minus keys after it
BlindingKey(voting_keys, i) ==
    LET acc[j \in 0..Len(voting_keys)] ==
            IF j = 0 THEN IDENTITY
            ELSE IF j = i THEN acc[j - 1]
            ELSE compute_add_mixed(acc[j - 1],
                    IF j < i THEN voting_keys[j] ELSE compute_negation(voting_keys[j]))
    IN  reduce_to_affine(acc[Len(voting_keys)])

\* cds::trace::prepare_encrypted_votes: (ev + G, ev - G)
prepare_encrypted_votes(encrypted_vote) ==
    <<reduce_to_affine(compute_add_mixed(Projective(encrypted_vote), GENERATOR)),
      reduce_to_affine(compute_add_mixed(Projective(encrypted_vote),
                                         compute_negation(GENERATOR)))>>

\* r * P + d * Q in affine elements
Combine(r, P, d, Q) ==
    reduce_to_affine(compute_add(ScalarMul(r, Projective(P)), ScalarMul(d, Projective(Q))))

\* cds::encrypt_votes_and_compute_proofs, first loop: x * bk + G or x * bk - G
encrypted_vote_of(x, bk, vote) ==
    reduce_to_affine(
        compute_add_mixed(ScalarMul(x, Projective(bk)),
            IF vote THEN GENERATOR ELSE compute_negation(GENERATOR)))

\* second loop: the points (a1, b1, a2, b2), from the random scalars w, r, d
proof_points_of(vk, bk, ev, vote, w, r, d) ==
    LET evs == prepare_encrypted_votes(ev)
        chosen == Combine(r, GENERATOR, d, vk) \o Combine(r, bk, d, evs[IF vote THEN 1 ELSE 2])
        committed == Combine(w, GENERATOR, 0, vk) \o Combine(w, bk, 0, vk)
    IN  IF vote THEN chosen \o committed ELSE committed \o chosen

\* the challenge of a proof: Scalar::from_bits of the hash of the message
challenge_of(i, vk, ev, points) ==
    ScalarFromBits(hash_message_bytes(prepare_hash_message(i, vk, ev, points)))

\* third loop: the scalars (d1, d2, r1, r2), from the challenge c
proof_scalars_of(x, vote, w, r, d, c) ==
    LET other == (c + GROUP_ORDER - d) % GROUP_ORDER
        resp == (w + GROUP_ORDER * GROUP_ORDER - x * other) % GROUP_ORDER
    IN  IF vote THEN <<d, other, r, resp>> ELSE <<other, d, resp, r>>

\* the body of the loop of cds::naive_verify_cds_proofs: the check of proof i
naive_verify_cds_proof(voting_keys, encrypted_votes, proof_scalars, proof_points, i) ==
    LET s == proof_scalars[i]
        pts == proof_points[i]
        bk == BlindingKey(voting_keys, i)
        evs == prepare_encrypted_votes(encrypted_votes[i])
        c == challenge_of(i - 1, voting_keys[i], encrypted_votes[i], pts)
    IN  /\ c = (s[1] + s[2]) % GROUP_ORDER
        /\ Slice(pts, 0, AFFINE_POINT_WIDTH)
                = Combine(s[3], GENERATOR, s[1], voting_keys[i])
        /\ Slice(pts, AFFINE_POINT_WIDTH, 2 * AFFINE_POINT_WIDTH)
                = Combine(s[3], bk, s[1], evs[1])
        /\ Slice(pts, 2 * AFFINE_POINT_WIDTH, 3 * AFFINE_POINT_WIDTH)
                = Combine(s[4], GENERATOR, s[2], voting_keys[i])
        /\ Slice(pts, 3 * AFFINE_POINT_WIDTH, 4 * AFFINE_POINT_WIDTH)
                = Combine(s[4], bk, s[2], evs[2])

\* cds::naive_verify_cds_proofs
naive_verify_cds_proofs(voting_keys, encrypted_votes, proof_scalars, proof_points) ==
    \A i \in 1..Len(voting_keys) :
        naive_verify_cds_proof(voting_keys, encrypted_votes, proof_scalars, proof_points, i)

\* ------------------------------------------------------------------------
\* CDS proofs: trace
\* ------------------------------------------------------------------------

\* first register of each part of a row:
\* | c * vk | c_bits | r * g | r * bk | r_bits | d * vk | d * (ev +- G) | d_bits | c0..c3 | hash |
C_BIT == PROJECTIVE_POINT_WIDTH

R_G == PROJECTIVE_POINT_WIDTH + 1

R_BK == 2 * PROJECTIVE_POINT_WIDTH + 1

R_BIT == 3 * PROJECTIVE_POINT_WIDTH + 1

D_VK == 3 * PROJECTIVE_POINT_WIDTH + 2

D_EV == 4 * PROJECTIVE_POINT_WIDTH + 2

D_BIT == 5 * PROJECTIVE_POINT_WIDTH + 2

C_LIMBS == 5 * PROJECTIVE_POINT_WIDTH + 3

CDS_HASH == 5 * PROJECTIVE_POINT_WIDTH + 7

\* row[k..k + PROJECTIVE_POINT_WIDTH]
PointAt(row, k) == SubSeq(row, k + 1, k + PROJECTIVE_POINT_WIDTH)

\* cds::trace::init_cds_verification_state
init_cds_verification_state(voter_index) ==
    [k \in 1..CDS_TRACE_WIDTH |->
        IF (k - 1) \in {POINT_COORDINATE_WIDTH,
                        PROJECTIVE_POINT_WIDTH + POINT_COORDINATE_WIDTH + 1,
                        PROJECTIVE_POINT_WIDTH * 2 + POINT_COORDINATE_WIDTH + 1,
                        PROJECTIVE_POINT_WIDTH * 3 + POINT_COORDINATE_WIDTH + 2,
                        PROJECTIVE_POINT_WIDTH * 4 + POINT_COORDINATE_WIDTH + 2}
        THEN 1
        ELSE IF k - 1 = PROJECTIVE_POINT_WIDTH * 5 + 7 THEN (voter_index % 256) % MODULUS
        ELSE 0] \o <<>>

\* the limb the challenge bit of bit-step real_step is accumulated into
CDSLimbChunkLate(real_step) ==
    IF real_step < LIMB_BITS THEN 0 ELSE ((real_step - LIMB_BITS) \div LIMB_BITS) + 1

\* update_cds_verification_state: chunk, the limb of the challenge bit-step real_step belongs to
CDSLimbChunk(real_step) ==
    IF real_step < LIMB_BITS - 1 THEN 0 ELSE ((real_step - (LIMB_BITS - 1)) \div LIMB_BITS) + 1

\* ecc::apply_point_addition_mixed, apply_point_addition_mixed_bit: add when the bit is set
apply_point_addition_mixed(P, bit, point) ==
    IF bit = 1 THEN compute_add_mixed(P, point) ELSE P

\* the registers of a point after ecc::reduce_to_affine is copied over its x and y
ReducedInPlace(P) ==
    reduce_to_affine(P) \o SubSeq(P, AFFINE_POINT_WIDTH + 1, PROJECTIVE_POINT_WIDTH)

\* update_cds_verification_state: the Rescue part of the step
CDSHashStep(step, hash_msg, h) ==
    LET rescue_flag == step < TOTAL_HASH_LENGTH
        rescue_step == step % HASH_CYCLE_LENGTH
        index == (step \div HASH_CYCLE_LENGTH) + 1
    IN  IF rescue_flag /\ rescue_step < NUM_HASH_ROUNDS
        THEN ApplyRound(h, step) \o <<>>
        ELSE IF rescue_flag /\ step < (NUM_HASH_ITER - 1) * HASH_CYCLE_LENGTH
        THEN SubSeq(h, 1, RATE_WIDTH)
                \o SubSeq(hash_msg, RATE_WIDTH * index + 1, RATE_WIDTH * (index + 1))
        ELSE IF rescue_flag
        THEN SubSeq(h, 1, RATE_WIDTH) \o Zeros(RATE_WIDTH)
        ELSE h

\* cds::trace::update_cds_verification_state: the row after `state`, for the item `it`
\* (hash message, keys, the two encrypted votes, scalars d1, d2, r1, r2, words of c)
update_cds_verification_state(step, it, state) ==
    LET bit_length == SCALAR_MUL_LENGTH \div 2
        is_phase_1 == step < NROWS_PER_PHASE
        mul_step == step % NROWS_PER_PHASE
        real_step == mul_step \div 2
        hash == CDSHashStep(step, it.hash_msg, SubSeq(state, CDS_HASH + 1, CDS_TRACE_WIDTH))
        limbs == SubSeq(state, C_LIMBS + 1, C_LIMBS + 4)
        c_vk == PointAt(state, 0)
        r_g == PointAt(state, R_G)
        r_bk == PointAt(state, R_BK)
        d_vk == PointAt(state, D_VK)
        d_ev == PointAt(state, D_EV)
    IN  IF mul_step < SCALAR_MUL_LENGTH
        THEN LET k == bit_length - 1 - real_step
                 c_bit == IF is_phase_1 THEN ChallengeBit(it.c_words, k) ELSE 0
                 r_bit == Bit(it.proof_scalars[IF is_phase_1 THEN 3 ELSE 4], k)
                 d_bit == Bit(it.proof_scalars[IF is_phase_1 THEN 1 ELSE 2], k)
                 limb == 4 - CDSLimbChunk(real_step)
             IN  IF mul_step % 2 = 0
                 THEN (IF is_phase_1 THEN compute_double(c_vk) ELSE c_vk) \o <<c_bit>>
                        \o compute_double(r_g) \o compute_double(r_bk) \o <<r_bit>>
                        \o compute_double(d_vk) \o compute_double(d_ev) \o <<d_bit>>
                        \o (IF is_phase_1
                            THEN [limbs EXCEPT ![limb] = FAdd(FMul(2, @), c_bit)]
                            ELSE limbs)
                        \o hash
                 ELSE apply_point_addition_mixed(c_vk, c_bit, it.voting_key) \o <<c_bit>>
                        \o apply_point_addition_mixed(r_g, r_bit, GENERATOR)
                        \o apply_point_addition_mixed(r_bk, r_bit, it.blinding_key) \o <<r_bit>>
                        \o apply_point_addition_mixed(d_vk, d_bit, it.voting_key)
                        \o apply_point_addition_mixed(d_ev, d_bit,
                                IF is_phase_1 THEN it.encrypted_vote_1 ELSE it.encrypted_vote_2)
                        \o <<d_bit>> \o limbs \o hash
        ELSE IF mul_step = SCALAR_MUL_LENGTH
        THEN compute_add(c_vk, compute_negation(d_vk)) \o <<state[C_BIT + 1]>>
                \o ReducedInPlace(compute_add(r_g, d_vk))
                \o ReducedInPlace(compute_add(r_bk, d_ev)) \o <<state[R_BIT + 1]>>
                \o d_vk \o d_ev \o <<state[D_BIT + 1]>> \o limbs \o hash
        ELSE c_vk \o <<0>> \o IDENTITY \o IDENTITY \o <<0>>
                \o IDENTITY \o IDENTITY \o <<0>> \o limbs \o hash

\* the data CDSProver::build_trace prepares for the fragment of voter i (1-based)
CDSItem(voting_keys, encrypted_votes, proof_points, proof_scalars, i) ==
    LET evs == prepare_encrypted_votes(encrypted_votes[i])
        hash_msg == prepare_hash_message(i - 1, voting_keys[i], encrypted_votes[i],
                                         proof_points[i])
    IN  [hash_msg |-> hash_msg,
         voting_key |-> voting_keys[i],
         blinding_key |-> BlindingKey(voting_keys, i),
         encrypted_vote_1 |-> evs[1],
         encrypted_vote_2 |-> evs[2],
         proof_scalars |-> proof_scalars[i],
         c_words |-> hash_message_bytes(hash_msg)]

\* ------------------------------------------------------------------------
\* CDS proofs: AIR
\* ------------------------------------------------------------------------

\* cds::air::periodic_columns, at row r of a cycle
CDSGlobalMask(r) == IF r < CDS_CYCLE_LENGTH - 1 THEN 1 ELSE 0

CDSPhaseMask(r) == IF r % NROWS_PER_PHASE < SCALAR_MUL_LENGTH + 1 THEN 1 ELSE 0

CDSCMultFlag(r) == IF r < SCALAR_MUL_LENGTH THEN 1 ELSE 0

CDSScalarMultFlag(r) == IF r % NROWS_PER_PHASE < SCALAR_MUL_LENGTH THEN 1 ELSE 0

CDSDoublingFlag(r) ==
    IF r % NROWS_PER_PHASE < SCALAR_MUL_LENGTH /\ (r % NROWS_PER_PHASE) % 2 = 0 THEN 1 ELSE 0

\* the row the range of hash_digest_register_flag[i] ends before
HashDigestFlagEnd(i) == 2 * ((i + 1) * LIMB_BITS - 1)

hash_digest_register_flag(i, r) ==
    IF r < HashDigestFlagEnd(i) /\ (i = 0 \/ r >= HashDigestFlagEnd(i - 1)) THEN 1 ELSE 0

CDSHashFlag(r) == IF r < TOTAL_HASH_LENGTH THEN HASH_CYCLE_MASK(r) ELSE 0

\* CDSAir::get_periodic_column_values: what the columns of the cycle of each voter hold
CDSColumns(proofs) ==
    LET keys == [j \in 1..Len(proofs) |-> SubSeq(proofs[j], 1, AFFINE_POINT_WIDTH)] \o <<>>
    IN  [v \in 1..Len(proofs) |->
            LET evs == prepare_encrypted_votes(
                            SubSeq(proofs[v], AFFINE_POINT_WIDTH + 1, 2 * AFFINE_POINT_WIDTH))
            IN  [voting_key |-> keys[v],
                 blinding_key |-> BlindingKey(keys, v),
                 encrypted_vote_1 |-> evs[1],
                 encrypted_vote_2 |-> evs[2],
                 hash_message |-> Zeros(AFFINE_POINT_WIDTH) \o proofs[v]]] \o <<>>

\* the hash_intermediate_inputs columns at row r of a cycle
CDSHashInternalInputs(col, r) ==
    IF r < (NUM_HASH_ITER - 1) * HASH_CYCLE_LENGTH /\ r % HASH_CYCLE_LENGTH = NUM_HASH_ROUNDS
    THEN SubSeq(col.hash_message, ((r \div HASH_CYCLE_LENGTH) + 1) * RATE_WIDTH + 1,
                                  ((r \div HASH_CYCLE_LENGTH) + 2) * RATE_WIDTH)
    ELSE Zeros(RATE_WIDTH)

\* agg_constraint over a slice: flag * value per register, nothing evaluated under flag 0
Gate(flag, n, values) ==
    IF flag = 0 THEN Zeros(n) ELSE [i \in 1..n |-> FMul(flag, values[i])]

\* are_equal per register
Differences(a, b) == [i \in 1..Len(a) |-> AreEqual(a[i], b[i])]

\* the gadgets on the registers of one point: ecc::enforce_point_doubling under dflag,
\* enforce_point_addition_mixed with `bit` and `point` under aflag, field::enforce_copy
\* under cflag, and the next point being `sum` under fflag
EnforcePoint(P, N, dflag, aflag, bit, point, cflag, fflag, sum) ==
    LET d == Gate(dflag, PROJECTIVE_POINT_WIDTH, Differences(N, compute_double(P)))
        a == Gate(aflag, PROJECTIVE_POINT_WIDTH,
                  Differences(N, apply_point_addition_mixed(P, bit, point)))
        c == Gate(cflag, PROJECTIVE_POINT_WIDTH, Differences(N, P))
        f == Gate(fflag, PROJECTIVE_POINT_WIDTH, Differences(N, sum))
    IN  [i \in 1..PROJECTIVE_POINT_WIDTH |-> FAdd(FAdd(d[i], a[i]), FAdd(c[i], f[i]))] \o <<>>

\* enforce_hash_copy
enforce_hash_copy(current, next, flag, internal_inputs) ==
    [i \in 1..STATE_WIDTH |->
        IF i <= RATE_WIDTH THEN FMul(flag, AreEqual(current[i], next[i]))
        ELSE FMul(flag, AreEqual(next[i], internal_inputs[i - RATE_WIDTH]))]

\* the constraints on limb register C_LIMBS + j: double-and-add under flag 3 - j, copy
\* outside it, and equality with hash register j at the final addition
EnforceLimb(current, next, j, r, c_doubling_flag, c_addition_flag, final_flag) ==
    LET flag == hash_digest_register_flag(3 - j, r)
        cur == current[C_LIMBS + j + 1]
        nxt == next[C_LIMBS + j + 1]
    IN  FAdd(FAdd(FMul(FMul(flag, c_doubling_flag),
                       AreEqual(nxt, FAdd(FMul(2, cur), next[C_BIT + 1]))),
                  FMul(c_addition_flag, AreEqual(nxt, cur))),
             FAdd(FMul(FMul(Not(flag), c_doubling_flag), AreEqual(cur, nxt)),
                  FMul(final_flag, AreEqual(cur, current[CDS_HASH + j + 1]))))

\* final_point_addition_flag without the phase mask: raised on every row that is not
\* a step of the scalar multiplications
final_point_addition_flag_unmasked(scalar_mult_flag, phase_mask) == Not(scalar_mult_flag)

\* CDSAir::evaluate_transition: final_point_addition_flag
final_point_addition_flag_of(scalar_mult_flag, phase_mask) ==
    FMul(Not(scalar_mult_flag), phase_mask)

\* CDSAir::evaluate_transition: the flags handed to evaluate_constraints at row r
CDSFlags(r) ==
    LET global_mask == CDSGlobalMask(r)
        phase_mask == CDSPhaseMask(r)
        c_mult_flag == CDSCMultFlag(r)
        scalar_mult_flag == CDSScalarMultFlag(r)
        doubling_flag == CDSDoublingFlag(r)
        hash_flag == CDSHashFlag(r)
        final_point_addition_flag == final_point_addition_flag_of(scalar_mult_flag, phase_mask)
    IN  [doubling_flag |-> doubling_flag,
         hash_flag |-> hash_flag,
         copy_hash_flag |-> FMul(Not(hash_flag), global_mask),
         final_point_addition_flag |-> final_point_addition_flag,
         c_doubling_flag |-> FMul(doubling_flag, c_mult_flag),
         c_addition_flag |-> FMul(Not(doubling_flag), c_mult_flag),
         c_copy_flag |-> FMul(FMul(Not(c_mult_flag), Not(final_point_addition_flag)),
                              global_mask),
         addition_flag |-> FMul(Not(doubling_flag), scalar_mult_flag)]

\* the names of the families whose flag is raised, of pairs <<family, flag>>
Raised(pairs) == {p[1] : p \in {q \in pairs : q[2] # 0}}

\* evaluate_constraints: per register group, the constraint families the flags of row r
\* activate (a limb register per entry of limbs, first the register at C_LIMBS)
CDSActiveFamilies(r) ==
    LET f == CDSFlags(r)
        point == {<<"doubling", f.doubling_flag>>, <<"addition", f.addition_flag>>}
        sum == {<<"final", f.final_point_addition_flag>>}
    IN  [c_vk |-> Raised({<<"doubling", f.c_doubling_flag>>,
                          <<"addition", f.c_addition_flag>>,
                          <<"copy", f.c_copy_flag>>,
                          <<"final", f.final_point_addition_flag>>}),
         r_g |-> Raised(point \cup sum),
         r_bk |-> Raised(point \cup sum),
         d_vk |-> Raised(point),
         d_ev |-> Raised(point),
         limbs |-> [j \in 0..3 |->
                      LET flag == hash_digest_register_flag(3 - j, r)
                      IN  Raised({<<"double_and_add", FMul(flag, f.c_doubling_flag)>>,
                                  <<"copy", f.c_addition_flag>>,
                                  <<"copy_aside", FMul(Not(flag), f.c_doubling_flag)>>})],
         hash |-> Raised({<<"round", f.hash_flag>>, <<"copy", f.copy_hash_flag>>})]

\* the registers of a point after the operation of `family`: ecc::apply_point_doubling,
\* apply_point_addition_mixed with `bit` and `point`, compute_add with `other` (reduced
\* to affine in place for the points of r), or the point as it is
CDSPointAfter(family, P, bit, point, other, reduced) ==
    IF family = "doubling" THEN compute_double(P)
    ELSE IF family = "addition" THEN apply_point_addition_mixed(P, bit, point)
    ELSE IF family = "final"
    THEN (IF reduced THEN ReducedInPlace(compute_add(P, other)) ELSE compute_add(P, other))
    ELSE P

\* limb register C_LIMBS + j after the operation of `family`: a step of
\* field::apply_double_and_add_step with the challenge bit of the next row, or a copy
CDSLimbAfter(j, family, current, next) ==
    IF family = "double_and_add"
    THEN FAdd(FMul(2, current[C_LIMBS + j + 1]), next[C_BIT + 1])
    ELSE current[C_LIMBS + j + 1]

\* the group of registers `group` of the row after `current` when the operation of
\* `family` is applied at row r of the cycle whose columns are `col`
CDSFamilyResult(group, family, current, r, col) ==
    LET d_vk == PointAt(current, D_VK)
        d_ev == PointAt(current, D_EV)
        hash == SubSeq(current, CDS_HASH + 1, CDS_TRACE_WIDTH)
    IN  CASE group = "c_vk" ->
                CDSPointAfter(family, PointAt(current, 0), current[C_BIT + 1],
                              col.voting_key, compute_negation(d_vk), FALSE)
          [] group = "r_g" ->
                CDSPointAfter(family, PointAt(current, R_G), current[R_BIT + 1],
                              GENERATOR, d_vk, TRUE)
          [] group = "r_bk" ->
                CDSPointAfter(family, PointAt(current, R_BK), current[R_BIT + 1],
                              col.blinding_key, d_ev, TRUE)
          [] group = "d_vk" ->
                CDSPointAfter(family, d_vk, current[D_BIT + 1], col.voting_key, d_vk, FALSE)
          [] group = "d_ev" ->
                CDSPointAfter(family, d_ev, current[D_BIT + 1],
                              IF r < NROWS_PER_PHASE THEN col.encrypted_vote_1
                              ELSE col.encrypted_vote_2, d_ev, FALSE)
          [] group = "hash" ->
                IF family = "round" THEN ApplyRound(hash, r) \o <<>>
                ELSE SubSeq(hash, 1, RATE_WIDTH) \o CDSHashInternalInputs(col, r)

\* the registers of `group` in a row
CDSGroupOf(group, row) ==
    CASE group = "c_vk" -> PointAt(row, 0)
      [] group = "r_g" -> PointAt(row, R_G)
      [] group = "r_bk" -> PointAt(row, R_BK)
      [] group = "d_vk" -> PointAt(row, D_VK)
      [] group = "d_ev" -> PointAt(row, D_EV)
      [] group = "hash" -> SubSeq(row, CDS_HASH + 1, CDS_TRACE_WIDTH)

\* CDSAir::evaluate_transition and evaluate_constraints at row r of the cycle whose
\* columns are `col`: one result per register
CDSEvaluateTransition(current, next, r, col) ==
    LET flags == CDSFlags(r)
        doubling_flag == flags.doubling_flag
        hash_flag == flags.hash_flag
        encrypted_vote == IF r < NROWS_PER_PHASE THEN col.encrypted_vote_1
                          ELSE col.encrypted_vote_2
        copy_hash_flag == flags.copy_hash_flag
        final_point_addition_flag == flags.final_point_addition_flag
        c_doubling_flag == flags.c_doubling_flag
        c_addition_flag == flags.c_addition_flag
        c_copy_flag == flags.c_copy_flag
        addition_flag == flags.addition_flag
        c_bit == current[C_BIT + 1]
        r_bit == current[R_BIT + 1]
        d_bit == current[D_BIT + 1]
        d_vk == PointAt(current, D_VK)
        d_ev == PointAt(current, D_EV)
        hash == SubSeq(current, CDS_HASH + 1, CDS_TRACE_WIDTH)
        next_hash == SubSeq(next, CDS_HASH + 1, CDS_TRACE_WIDTH)
        round == EnforceRound(hash, next_hash, r, hash_flag)
        copy == enforce_hash_copy(hash, next_hash, copy_hash_flag,
                                  CDSHashInternalInputs(col, r))
    IN  EnforcePoint(PointAt(current, 0), PointAt(next, 0), c_doubling_flag,
                     c_addition_flag, c_bit, col.voting_key, c_copy_flag,
                     final_point_addition_flag,
                     compute_add(PointAt(current, 0), compute_negation(d_vk)))
        \o <<FAdd(FMul(c_doubling_flag, IsBinary(c_bit)),
                  FMul(c_doubling_flag, IsBinary(next[C_BIT + 1])))>>
        \o EnforcePoint(PointAt(current, R_G), PointAt(next, R_G), doubling_flag,
                        addition_flag, r_bit, GENERATOR, 0, final_point_addition_flag,
                        ReducedInPlace(compute_add(PointAt(current, R_G), d_vk)))
        \o EnforcePoint(PointAt(current, R_BK), PointAt(next, R_BK), doubling_flag,
                        addition_flag, r_bit, col.blinding_key, 0,
                        final_point_addition_flag,
                        ReducedInPlace(compute_add(PointAt(current, R_BK), d_ev)))
        \o <<FMul(doubling_flag, IsBinary(r_bit))>>
        \o EnforcePoint(d_vk, PointAt(next, D_VK), doubling_flag,
                        addition_flag, d_bit, col.voting_key, 0, 0, d_vk)
        \o EnforcePoint(d_ev, PointAt(next, D_EV), doubling_flag,
                        addition_flag, d_bit, encrypted_vote, 0, 0, d_ev)
        \o <<FMul(doubling_flag, IsBinary(d_bit))>>
        \o [j \in 1..4 |-> EnforceLimb(current, next, j - 1, r, c_doubling_flag,
                                       c_addition_flag, final_point_addition_flag)]
        \o [i \in 1..STATE_WIDTH |-> FAdd(round[i], copy[i])]

CDSTransitionHolds(current, next, r, col) ==
    CDSEvaluateTransition(current, next, r, col) = Zeros(CDS_TRACE_WIDTH)

\* cds::diff_registers
diff_registers(a, b) == [i \in 1..Len(a) |-> FSub(a[i], b[i])]

\* one output of CDSProver::get_pub_inputs, from the rows of a cycle at the end of its
\* two phases and the proof points the prover holds
CDSOutput(phase1, phase2, proof_points) ==
    diff_registers(SubSeq(phase1, R_G + 1, R_G + AFFINE_POINT_WIDTH),
                   SubSeq(proof_points, 1, AFFINE_POINT_WIDTH))
    \o diff_registers(SubSeq(phase1, R_BK + 1, R_BK + AFFINE_POINT_WIDTH),
                      SubSeq(proof_points, AFFINE_POINT_WIDTH + 1, 2 * AFFINE_POINT_WIDTH))
    \o diff_registers(SubSeq(phase2, R_G + 1, R_G + AFFINE_POINT_WIDTH),
                      SubSeq(proof_points, 2 * AFFINE_POINT_WIDTH + 1, 3 * AFFINE_POINT_WIDTH))
    \o diff_registers(SubSeq(phase2, R_BK + 1, R_BK + AFFINE_POINT_WIDTH),
                      SubSeq(proof_points, 3 * AFFINE_POINT_WIDTH + 1, 4 * AFFINE_POINT_WIDTH))
    \o SubSeq(phase2, 1, POINT_COORDINATE_WIDTH)
    \o SubSeq(phase2, AFFINE_POINT_WIDTH + 1, PROJECTIVE_POINT_WIDTH)

\* the proofs of CDSProver::get_pub_inputs
CDSProofs(voting_keys, encrypted_votes, proof_points) ==
    [i \in 1..Len(voting_keys) |-> voting_keys[i] \o encrypted_votes[i] \o proof_points[i]]

\* the points of the proofs alone, whatever the outputs of the phases are
transpose_proof_points_bare(proofs, outputs) ==
    LET n == IF Len(proofs) < Len(outputs) THEN Len(proofs) ELSE Len(outputs)
        point(v, e) == proofs[v][2 * AFFINE_POINT_WIDTH + e]
    IN  [a |-> [i \in 1..AFFINE_POINT_WIDTH |->
                    [k \in 1..(2 * n) |->
                        point((k + 1) \div 2,
                              i + (IF k % 2 = 1 THEN 0 ELSE 2 * AFFINE_POINT_WIDTH))]],
         b |-> [i \in 1..AFFINE_POINT_WIDTH |->
                    [k \in 1..(2 * n) |->
                        point((k + 1) \div 2,
                              i + (IF k % 2 = 1 THEN 1 ELSE 3) * AFFINE_POINT_WIDTH)]],
         c_diff |-> [i \in 1..AFFINE_POINT_WIDTH |->
                        [v \in 1..n |-> outputs[v][i + 4 * AFFINE_POINT_WIDTH]]]]

\* transpose_proof_points: per register, the values at the ends of the phases of every
\* cycle (a, b) and at the end of every cycle (c_diff)
transpose_proof_points(proofs, outputs) ==
    LET n == IF Len(proofs) < Len(outputs) THEN Len(proofs) ELSE Len(outputs)
        point(v, e) == FAdd(proofs[v][2 * AFFINE_POINT_WIDTH + e], outputs[v][e])
    IN  [a |-> [i \in 1..AFFINE_POINT_WIDTH |->
                    [k \in 1..(2 * n) |->
                        point((k + 1) \div 2,
                              i + (IF k % 2 = 1 THEN 0 ELSE 2 * AFFINE_POINT_WIDTH))]],
         b |-> [i \in 1..AFFINE_POINT_WIDTH |->
                    [k \in 1..(2 * n) |->
                        point((k + 1) \div 2,
                              i + (IF k % 2 = 1 THEN 1 ELSE 3) * AFFINE_POINT_WIDTH)]],
         c_diff |-> [i \in 1..AFFINE_POINT_WIDTH |->
                        [v \in 1..n |-> outputs[v][i + 4 * AFFINE_POINT_WIDTH]]]]

\* Assertion::periodic and Assertion::sequence in a trace of `len` rows, as
\* <<register, row, value>>
PeriodicAssertion(reg, first, stride, value, len) ==
    {<<reg, first + k * stride, value>> : k \in 0..((len \div stride) - 1)}

SequenceAssertion(reg, first, stride, values) ==
    {<<reg, first + (k - 1) * stride, values[k]>> : k \in 1..Len(values)}

\* CDSAir::get_assertions, START OF CDS CYCLE, for n proofs
CDSStartAssertions(n) ==
    LET len == n * CDS_CYCLE_LENGTH
        one(i) == IF i = POINT_COORDINATE_WIDTH THEN 1 ELSE 0
    IN  UNION {PeriodicAssertion(i, 0, CDS_CYCLE_LENGTH, one(i), len)
               \cup UNION {PeriodicAssertion(i + k, 0, NROWS_PER_PHASE, one(i), len) :
                            k \in {R_G, R_BK, D_VK, D_EV}} :
               i \in 0..(PROJECTIVE_POINT_WIDTH - 1)}
        \cup UNION {PeriodicAssertion(k, 0, NROWS_PER_PHASE, 0, len) :
                        k \in {C_BIT, R_BIT, D_BIT}}
        \cup UNION {PeriodicAssertion(i + C_LIMBS, 0, CDS_CYCLE_LENGTH, 0, len) : i \in 0..3}
        \cup {<<CDS_HASH, i * CDS_CYCLE_LENGTH, (i % 256) % MODULUS>> : i \in 0..(n - 1)}
        \cup UNION {PeriodicAssertion(i + CDS_HASH, 0, CDS_CYCLE_LENGTH, 0, len) :
                        i \in 1..(STATE_WIDTH - 1)}

\* CDSAir::get_assertions, END OF PHASE and END OF CYCLE without the z coordinate
CDSEndAssertionsNoZ(proofs, outputs) ==
    LET t == transpose_proof_points(proofs, outputs)
    IN  UNION {SequenceAssertion(i + R_G, SCALAR_MUL_LENGTH + 1, NROWS_PER_PHASE, t.a[i + 1])
               \cup SequenceAssertion(i + R_BK, SCALAR_MUL_LENGTH + 1, NROWS_PER_PHASE,
                                      t.b[i + 1]) :
               i \in 0..(AFFINE_POINT_WIDTH - 1)}
        \cup UNION {SequenceAssertion(i, CDS_CYCLE_LENGTH - 1, CDS_CYCLE_LENGTH,
                                      t.c_diff[i + 1]) :
                    i \in 0..(POINT_COORDINATE_WIDTH - 1)}

\* CDSAir::get_assertions, END OF PHASE and END OF CYCLE
CDSEndAssertions(proofs, outputs) ==
    LET t == transpose_proof_points(proofs, outputs)
    IN  UNION {SequenceAssertion(i + R_G, SCALAR_MUL_LENGTH + 1, NROWS_PER_PHASE, t.a[i + 1])
               \cup SequenceAssertion(i + R_BK, SCALAR_MUL_LENGTH + 1, NROWS_PER_PHASE,
                                      t.b[i + 1]) :
               i \in 0..(AFFINE_POINT_WIDTH - 1)}
        \cup UNION {SequenceAssertion(i, CDS_CYCLE_LENGTH - 1, CDS_CYCLE_LENGTH,
                                      t.c_diff[i + 1])
                    \cup SequenceAssertion(i + AFFINE_POINT_WIDTH, CDS_CYCLE_LENGTH - 1,
                                           CDS_CYCLE_LENGTH,
                                           t.c_diff[i + POINT_COORDINATE_WIDTH + 1]) :
                    i \in 0..(POINT_COORDINATE_WIDTH - 1)}

\* ------------------------------------------------------------------------
\* State
\* ------------------------------------------------------------------------

VARIABLES
    prog,       \* the program under way: "merkle", "cds", "tally", ...
    wit,        \* the prover's witness and parameters
    pub,        \* the public inputs handed to the verifier
    pc,         \* "start", "fill", "done", "abort"
    cycle,      \* index of the fragment being filled
    step,       \* row of the fragment `cur` is at
    prev,       \* the row before `cur` in the trace (<<>> at the first row)
    cur,        \* the row just written
    nrows,      \* number of trace rows written
    air,        \* the periodic columns the verifier's AIR derives from the public inputs
    kept,       \* the rows of the trace get_pub_inputs reads
    failed,     \* boundary assertions <<register, row>> the rows written violate
    transBad    \* rows r whose transition r -> r+1 violates a transition constraint

vars == <<prog, wit, pub, pc, cycle, step, prev, cur, nrows, air, kept, failed, transBad>>

\* ------------------------------------------------------------------------
\* Merkle prover
\* ------------------------------------------------------------------------

\* the debug assertion of MerkleProver::build_trace and the length TraceTable::new accepts
MerkleShapeOK(nBranches) == IsPowerOfTwo(nBranches)

\* the vectors fragment i (0-based) of MerkleProver::build_trace indexes
MerkleItemInRange(nKeys, nIndices, i) == i < nIndices /\ i < nKeys

MerkleKeyChoices == {<<1, 6, 1, 4>>, <<6, 3, 1, 3>>}

\* the leaves Init places keys at: the first two and the last
MerkleIndexChoices == {0, 1, NumLeaves - 1}

\* the fillings of the unused leaves Init draws
MerkleSeeds == {1}

ItemCounts == {n \in 1..MaxItems : IsPowerOfTwo(n)}

\* add one to element e (1-based) of a sequence of field elements
Bump(seq, e) == [seq EXCEPT ![e] = FAdd(@, 1)]

\* add d to element e (1-based) of a sequence of field elements
Shift(seq, e, d) == [seq EXCEPT ![e] = FAdd(@, d)]

\* flip bit j of v
FlipBit(v, j) == IF Bit(v, j) = 0 THEN v + Pow(2, j) ELSE v - Pow(2, j)

\* the defects of a witness and the faults of the public inputs that Init draws
MerkleDefects(n) ==
    {<<"none", 0, 0>>}
    \cup {<<"sibling", k, e>> : k \in 1..n, e \in 1..(TREE_DEPTH * DIGEST_SIZE)}
    \cup {<<"bit", k, j>> : k \in 1..n, j \in 0..(TREE_DEPTH - 1)}

MerkleFaults(n) ==
    {<<"none", 0, 0, 0>>}
    \cup {<<"key", k, e, d>> : k \in 1..n, e \in 1..AFFINE_POINT_WIDTH, d \in 1..(MODULUS - 1)}
    \cup {<<"root", 0, e, d>> : e \in 1..DIGEST_SIZE, d \in 1..(MODULUS - 1)}

\* the witness the prover is given and the public inputs the verifier is given
MerkleCase(keys, idx, tree, defect, fault) ==
    LET branches == IF defect[1] = "sibling"
                    THEN [tree.branches EXCEPT ![defect[2]] = Bump(@, defect[3])]
                    ELSE tree.branches
        indices == IF defect[1] = "bit"
                   THEN [idx EXCEPT ![defect[2]] = FlipBit(@, defect[3])]
                   ELSE idx
    IN  [wit |-> [tree_root |-> tree.tree_root, voting_keys |-> keys,
                  branches |-> branches, hash_indices |-> indices,
                  defect |-> defect, fault |-> fault,
                  accepted |-> naive_verify_merkle_proofs(tree.tree_root, keys,
                                                          branches, indices)],
         pub |-> [tree_root |-> IF fault[1] = "root"
                                THEN Shift(tree.tree_root, fault[3], fault[4])
                                ELSE tree.tree_root,
                  voting_keys |-> IF fault[1] = "key"
                                  THEN [keys EXCEPT ![fault[2]] = Shift(@, fault[3], fault[4])]
                                  ELSE keys]]

\* a tree with at most one defect of the witness or one fault of the public inputs
MerkleCasesOf(keys, idx, tree) ==
    {MerkleCase(keys, idx, tree, defect, <<"none", 0, 0, 0>>) :
        defect \in MerkleDefects(Len(keys))}
    \cup {MerkleCase(keys, idx, tree, <<"none", 0, 0>>, fault) :
        fault \in MerkleFaults(Len(keys))}

\* the cases of n items: keys at distinct leaves
MerkleCasesFor(n) ==
    UNION {MerkleCasesOf(keys, idx, build_merkle_tree_from(keys, idx, seed)) :
            keys \in [1..n -> MerkleKeyChoices],
            idx \in {f \in [1..n -> MerkleIndexChoices] :
                        \A a, b \in 1..n : a # b => f[a] # f[b]},
            seed \in MerkleSeeds}

MerkleCases == UNION {MerkleCasesFor(n) : n \in ItemCounts}

MerkleInit ==
    /\ prog = "merkle"
    /\ \E case \in MerkleCases :
          /\ wit = case.wit
          /\ pub = case.pub
    /\ pc = "start"
    /\ cycle = 0
    /\ step = 0
    /\ prev = <<>>
    /\ cur = <<>>
    /\ nrows = 0
    /\ air = <<>>
    /\ kept = <<>>
    /\ failed = {}
    /\ transBad = {}

\* position in the trace of row `step` of fragment `cycle`
MerkleRow(c, st) == c * MERKLE_CYCLE_LENGTH + st

\* the assertions of the verifier's AIR, built from the public inputs
MerklePubAssertions == MerkleGetAssertions(pub.tree_root, pub.voting_keys, Len(wit.branches))

MerkleFailedAt(row, r) == {<<a[1], a[2]>> : a \in FailedAt(MerklePubAssertions, row, r)}

\* build_trace up to the first row of fragment 0
MerkleStart ==
    /\ prog = "merkle" /\ pc = "start"
    /\ IF /\ MerkleShapeOK(Len(wit.branches))
          /\ MerkleItemInRange(Len(wit.voting_keys), Len(wit.hash_indices), 0)
       THEN LET row == init_merkle_verification_state(wit.voting_keys[1])
            IN  /\ pc' = "fill"
                /\ cur' = row
                /\ nrows' = 1
                /\ failed' = MerkleFailedAt(row, 0)
       ELSE /\ pc' = "abort"
            /\ UNCHANGED <<cur, nrows, failed>>
    /\ UNCHANGED <<prog, wit, pub, air, kept, cycle, step, prev, transBad>>

\* one call of the update closure of fragment `cycle`
MerkleStep ==
    /\ prog = "merkle" /\ pc = "fill"
    /\ step < MERKLE_CYCLE_LENGTH - 1
    /\ LET i == cycle + 1
           hash_index == 2 * wit.hash_indices[i]
           hash_message == MerkleHashMessage(wit.voting_keys[i], wit.branches[i])
           row == update_merkle_verification_state(step, hash_message, hash_index, cur)
           r == MerkleRow(cycle, step)
       IN  /\ prev' = cur
           /\ cur' = row
           /\ step' = step + 1
           /\ nrows' = nrows + 1
           /\ failed' = failed \cup MerkleFailedAt(row, r + 1)
           /\ transBad' = IF MerkleTransitionHolds(cur, row, r) THEN transBad
                          ELSE transBad \cup {r}
    /\ UNCHANGED <<prog, wit, pub, air, kept, pc, cycle>>

\* the fragment is full: the next fragment starts, or build_trace returns
MerkleNextFragment ==
    /\ prog = "merkle" /\ pc = "fill"
    /\ step = MERKLE_CYCLE_LENGTH - 1
    /\ IF cycle + 1 = Len(wit.branches)
       THEN /\ pc' = "done"
            /\ UNCHANGED <<cycle, step, prev, cur, nrows, failed, transBad>>
       ELSE IF MerkleItemInRange(Len(wit.voting_keys), Len(wit.hash_indices), cycle + 1)
       THEN LET row == init_merkle_verification_state(wit.voting_keys[cycle + 2])
                r == MerkleRow(cycle, step)
            IN  /\ cycle' = cycle + 1
                /\ step' = 0
                /\ prev' = cur
                /\ cur' = row
                /\ nrows' = nrows + 1
                /\ failed' = failed \cup MerkleFailedAt(row, r + 1)
                /\ transBad' = IF MerkleTransitionHolds(cur, row, r) THEN transBad
                               ELSE transBad \cup {r}
                /\ pc' = pc
       ELSE /\ pc' = "abort"
            /\ UNCHANGED <<cycle, step, prev, cur, nrows, failed, transBad>>
    /\ UNCHANGED <<prog, wit, pub, air, kept>>

MerkleNext == MerkleStart \/ MerkleStep \/ MerkleNextFragment

SpecMerkle == MerkleInit /\ [][MerkleNext]_vars

\* ------------------------------------------------------------------------
\* CDS prover
\* ------------------------------------------------------------------------

\* the debug assertions of CDSProver::build_trace
CDSShapeOK(num_proofs) == num_proofs >= 2 /\ IsPowerOfTwo(num_proofs)

CDSItemCounts == {n \in ItemCounts : n >= 2}

\* the secret keys, and per voter the nonces <<w, r, d>>, Init draws
CDSSecretChoices == {2, 5}

CDSNonces(i) == <<2 + i, 4 + i, 5 + 2 * i>>

\* keys, votes, proofs: what encrypt_votes_and_compute_proofs computes, one loop at a time
CDSVoters ==
    UNION {{[secret_keys |-> xs, votes |-> vs,
             voting_keys |-> [i \in 1..n |->
                                reduce_to_affine(ScalarMul(xs[i], Projective(GENERATOR)))]
                             \o <<>>] :
                xs \in [1..n -> CDSSecretChoices], vs \in [1..n -> BOOLEAN]} :
            n \in CDSItemCounts}

CDSBlinded ==
    {c @@ [blinding_keys |-> [i \in 1..Len(c.voting_keys) |->
                                BlindingKey(c.voting_keys, i)] \o <<>>] : c \in CDSVoters}

CDSEncrypted ==
    {c @@ [encrypted_votes |-> [i \in 1..Len(c.voting_keys) |->
                                    encrypted_vote_of(c.secret_keys[i], c.blinding_keys[i],
                                                      c.votes[i])] \o <<>>] :
        c \in CDSBlinded}

CDSCommitted ==
    {c @@ [proof_points |-> [i \in 1..Len(c.voting_keys) |->
                                proof_points_of(c.voting_keys[i], c.blinding_keys[i],
                                                c.encrypted_votes[i], c.votes[i],
                                                CDSNonces(i)[1], CDSNonces(i)[2],
                                                CDSNonces(i)[3])] \o <<>>] :
        c \in CDSEncrypted}

CDSChallenged ==
    {c @@ [challenges |-> [i \in 1..Len(c.voting_keys) |->
                                challenge_of(i - 1, c.voting_keys[i], c.encrypted_votes[i],
                                             c.proof_points[i])] \o <<>>] :
        c \in CDSCommitted}

CDSProved ==
    {c @@ [proof_scalars |-> [i \in 1..Len(c.voting_keys) |->
                                proof_scalars_of(c.secret_keys[i], c.votes[i],
                                                 CDSNonces(i)[1], CDSNonces(i)[2],
                                                 CDSNonces(i)[3], c.challenges[i])] \o <<>>] :
        c \in CDSChallenged}

\* the defects of a witness and the faults of the proofs of the public inputs Init draws
CDSDefects(n) ==
    {<<"scalar", v, e>> : v \in 1..n, e \in 1..PROOF_NUM_SCALARS}
    \cup {<<"point", v, e>> : v \in 1..n, e \in 1..(4 * AFFINE_POINT_WIDTH)}

CDSProofFaults(n) ==
    {<<"proof", v, e>> : v \in 1..n, e \in 1..(6 * AFFINE_POINT_WIDTH)}

CDSOutputFaults(n) ==
    {<<"output", v, e>> : v \in 1..n, e \in 1..(5 * AFFINE_POINT_WIDTH)}

\* the proofs Init draws defects and faults for
CDSFaultBase(c) == c.secret_keys[1] < c.secret_keys[2] /\ c.votes[1] /\ ~c.votes[2]

\* the witness the prover is given and the proofs the verifier is given
CDSCase(c, defect, fault) ==
    LET scalars == IF defect[1] = "scalar"
                   THEN [c.proof_scalars EXCEPT ![defect[2]][defect[3]] = (@ + 1) % GROUP_ORDER]
                   ELSE c.proof_scalars
        points == IF defect[1] = "point"
                  THEN [c.proof_points EXCEPT ![defect[2]] = Bump(@, defect[3])]
                  ELSE c.proof_points
        proofs == CDSProofs(c.voting_keys, c.encrypted_votes, points)
        passes == [i \in 1..Len(c.voting_keys) |->
                    naive_verify_cds_proof(c.voting_keys, c.encrypted_votes, scalars,
                                           points, i)]
    IN  [wit |-> [voting_keys |-> c.voting_keys, encrypted_votes |-> c.encrypted_votes,
                  proof_points |-> points, proof_scalars |-> scalars,
                  items |-> [i \in 1..Len(c.voting_keys) |->
                                CDSItem(c.voting_keys, c.encrypted_votes, points,
                                        scalars, i)] \o <<>>,
                  defect |-> defect, fault |-> fault,
                  passes |-> passes,
                  accepted |-> \A i \in 1..Len(c.voting_keys) : passes[i]],
         proofs |-> IF fault[1] = "proof"
                    THEN [proofs EXCEPT ![fault[2]] = Bump(@, fault[3])]
                    ELSE proofs]

CDSCases ==
    {CDSCase(c, <<"none", 0, 0>>, <<"none", 0, 0>>) : c \in CDSProved}
    \cup UNION {{CDSCase(c, defect, <<"none", 0, 0>>) : defect \in CDSDefects(Len(c.votes))}
                \cup {CDSCase(c, <<"none", 0, 0>>, fault) :
                        fault \in CDSProofFaults(Len(c.votes))} :
                c \in {b \in CDSProved : CDSFaultBase(b)}}

CDSInit ==
    /\ prog = "cds"
    /\ \E case \in CDSCases :
          /\ wit = case.wit
          /\ pub = [proofs |-> case.proofs, outputs |-> <<>>]
          /\ air = CDSColumns(case.proofs)
    /\ pc = "start"
    /\ cycle = 0
    /\ step = 0
    /\ prev = <<>>
    /\ cur = <<>>
    /\ nrows = 0
    /\ kept = <<>>
    /\ failed = {}
    /\ transBad = {}

\* position in the trace of row `step` of fragment `cycle`
CDSRow(c, st) == c * CDS_CYCLE_LENGTH + st

CDSFailedAt(as, row, r) == {<<a[1], a[2]>> : a \in FailedAt(as, row, r)}

\* the rows get_pub_inputs reads: the ends of the two phases of every cycle
CDSKeep(rows, row, st) ==
    IF st % NROWS_PER_PHASE = SCALAR_MUL_LENGTH + 1 THEN Append(rows, row) ELSE rows

\* build_trace up to the first row of fragment 0
CDSStart ==
    /\ prog = "cds" /\ pc = "start"
    /\ IF CDSShapeOK(Len(wit.voting_keys))
       THEN LET row == init_cds_verification_state(0)
            IN  /\ pc' = "fill"
                /\ cur' = row
                /\ nrows' = 1
                /\ failed' = CDSFailedAt(CDSStartAssertions(Len(pub.proofs)), row, 0)
       ELSE /\ pc' = "abort"
            /\ UNCHANGED <<cur, nrows, failed>>
    /\ UNCHANGED <<prog, wit, pub, air, cycle, step, prev, kept, transBad>>

\* one call of the update closure of fragment `cycle`
CDSStep ==
    /\ prog = "cds" /\ pc = "fill"
    /\ step < CDS_CYCLE_LENGTH - 1
    /\ LET row == update_cds_verification_state(step, wit.items[cycle + 1], cur)
           r == CDSRow(cycle, step)
       IN  /\ prev' = cur
           /\ cur' = row
           /\ step' = step + 1
           /\ nrows' = nrows + 1
           /\ kept' = CDSKeep(kept, row, step + 1)
           /\ failed' = failed
                        \cup CDSFailedAt(CDSStartAssertions(Len(pub.proofs)), row, r + 1)
           /\ transBad' = IF CDSTransitionHolds(cur, row, step, air[cycle + 1]) THEN transBad
                          ELSE transBad \cup {r}
    /\ UNCHANGED <<prog, wit, pub, air, pc, cycle>>

\* the fragment is full: the next fragment starts, or build_trace returns
CDSNextFragment ==
    /\ prog = "cds" /\ pc = "fill"
    /\ step = CDS_CYCLE_LENGTH - 1
    /\ IF cycle + 1 = Len(wit.voting_keys)
       THEN /\ pc' = "built"
            /\ UNCHANGED <<cycle, step, prev, cur, nrows, failed, transBad>>
       ELSE LET row == init_cds_verification_state(cycle + 1)
                r == CDSRow(cycle, step)
            IN  /\ cycle' = cycle + 1
                /\ step' = 0
                /\ prev' = cur
                /\ cur' = row
                /\ nrows' = nrows + 1
                /\ failed' = failed
                             \cup CDSFailedAt(CDSStartAssertions(Len(pub.proofs)), row, r + 1)
                /\ transBad' = IF CDSTransitionHolds(cur, row, step, air[cycle + 1])
                               THEN transBad ELSE transBad \cup {r}
                /\ pc' = pc
    /\ UNCHANGED <<prog, wit, pub, air, kept>>

\* get_pub_inputs reading the row at the end of the first phase for both phases
get_pub_inputs_first_phase(rows, proof_points) ==
    [i \in 1..Len(proof_points) |->
        CDSOutput(rows[2 * i - 1], rows[2 * i - 1], proof_points[i])] \o <<>>

\* CDSProver::get_pub_inputs
get_pub_inputs(rows, proof_points) ==
    [i \in 1..Len(proof_points) |->
        CDSOutput(rows[2 * i - 1], rows[2 * i], proof_points[i])] \o <<>>

\* the assertions of END OF PHASE and END OF CYCLE the rows read by get_pub_inputs violate
CDSEndFailed(proofs, outputs, rows) ==
    UNION {CDSFailedAt(CDSEndAssertions(proofs, outputs), rows[k],
                       (k - 1) * NROWS_PER_PHASE + SCALAR_MUL_LENGTH + 1) :
            k \in 1..Len(rows)}

\* the prover hands over the public inputs: the outputs are read off the trace; the
\* verifier is given them as they are or with one element changed
CDSGetPubInputs ==
    /\ prog = "cds" /\ pc = "built"
    /\ LET outputs == get_pub_inputs(kept, wit.proof_points)
       IN  \E fault \in {<<"none", 0, 0>>} \cup CDSOutputFaults(Len(outputs)) :
              /\ fault[1] # "none" =>
                    wit.fault[1] = "none" /\ wit.defect[1] = "none"
              /\ LET given == IF fault[1] = "none" THEN outputs
                              ELSE [outputs EXCEPT ![fault[2]] = Bump(@, fault[3])]
                 IN  /\ pub' = [pub EXCEPT !.outputs = given]
                     /\ wit' = IF fault[1] = "none" THEN wit
                               ELSE [wit EXCEPT !.fault = fault]
                     /\ failed' = failed \cup CDSEndFailed(pub.proofs, given, kept)
    /\ pc' = "done"
    /\ UNCHANGED <<prog, air, cycle, step, prev, cur, nrows, kept, transBad>>

CDSNext == CDSStart \/ CDSStep \/ CDSNextFragment \/ CDSGetPubInputs

SpecCDS == CDSInit /\ [][CDSNext]_vars

\* ------------------------------------------------------------------------
\* Tally: reference, trace, AIR and prover
\* ------------------------------------------------------------------------

\* Scalar::from(a) - Scalar::from(b).double()
ScalarMinusDouble(a, b) == ((a % GROUP_ORDER) + 2 * GROUP_ORDER - 2 * (b % GROUP_ORDER)) % GROUP_ORDER

\* Scalar::from(a).double() - Scalar::from(b)
DoubleMinusScalar(a, b) == (2 * (a % GROUP_ORDER) + GROUP_ORDER - (b % GROUP_ORDER)) % GROUP_ORDER

\* the registers of AffinePoint::from(generator * k): x, y and 1, or the identity
ScaledGenerator(k) ==
    IF k = 0 THEN IDENTITY
    ELSE Projective(reduce_to_affine(ScalarMul(k, Projective(GENERATOR))))

RECURSIVE SumFrom(_, _, _)
\* the votes from the i-th on added to acc by ecc::compute_add_mixed
SumFrom(acc, encrypted_votes, i) ==
    IF i > Len(encrypted_votes) \/ Len(acc) # PROJECTIVE_POINT_WIDTH THEN acc
    ELSE SumFrom(compute_add_mixed(acc, encrypted_votes[i]), encrypted_votes, i + 1)

\* tally::naive_verify_tally_result
naive_verify_tally_result(encrypted_votes, tally_result) ==
    LET encrypted_sum == SumFrom(IDENTITY, encrypted_votes, 1)
        expected_sum == ScaledGenerator(DoubleMinusScalar(tally_result,
                                                          Len(encrypted_votes)))
    IN  IF expected_sum = IDENTITY
        THEN SubSeq(encrypted_sum, AFFINE_POINT_WIDTH + 1, PROJECTIVE_POINT_WIDTH)
                = Zeros(POINT_COORDINATE_WIDTH)
        ELSE reduce_to_affine(encrypted_sum) = SubSeq(expected_sum, 1, AFFINE_POINT_WIDTH)

\* the debug assertions of TallyProver::build_trace
TallyShapeOK(num_votes, tally_result) ==
    /\ num_votes >= 2
    /\ IsPowerOfTwo(num_votes)
    /\ num_votes < MODULUS
    /\ tally_result <= num_votes

\* a trace that starts with d * g
TallyInitialStateOfD(num_votes, tally_result) ==
    ScaledGenerator(DoubleMinusScalar(tally_result, num_votes))

\* the init closure of TallyProver::build_trace: -d * g
TallyInitialState(num_votes, tally_result) ==
    ScaledGenerator(ScalarMinusDouble(num_votes, tally_result))

\* the update closure of TallyProver::build_trace
TallyUpdate(st, num_votes, encrypted_votes, state) ==
    IF st < num_votes - 2 THEN compute_add_mixed(state, encrypted_votes[st + 1])
    ELSE ReducedInPlace(compute_add_mixed(state, encrypted_votes[st + 1]))

\* TallyAir::get_periodic_column_values at row r
TallyFinalReductionFlag(num_votes, r) == IF r = num_votes - 2 THEN 1 ELSE 0

TallyVoteColumn(encrypted_votes, r) ==
    IF r < Len(encrypted_votes) - 1 THEN encrypted_votes[r + 1] ELSE Zeros(AFFINE_POINT_WIDTH)

\* TallyAir::evaluate_transition at row r
TallyEvaluateTransition(current, next, r, encrypted_votes) ==
    LET final_reduction_flag == TallyFinalReductionFlag(Len(encrypted_votes), r)
        sum == compute_add_mixed(current, TallyVoteColumn(encrypted_votes, r))
        add == Gate(Not(final_reduction_flag), PROJECTIVE_POINT_WIDTH,
                    Differences(next, sum))
        reduce == Gate(final_reduction_flag, PROJECTIVE_POINT_WIDTH,
                       Differences(next, ReducedInPlace(sum)))
    IN  [i \in 1..PROJECTIVE_POINT_WIDTH |-> FAdd(add[i], reduce[i])]

TallyTransitionHolds(current, next, r, encrypted_votes) ==
    TallyEvaluateTransition(current, next, r, encrypted_votes) = Zeros(PROJECTIVE_POINT_WIDTH)

\* TallyAir::get_assertions, START OF TRACE
TallyStartAssertions(num_votes, tally_result) ==
    LET neg_d_g == ScaledGenerator(ScalarMinusDouble(num_votes, tally_result))
    IN  {<<i, 0, neg_d_g[i + 1]>> : i \in 0..(AFFINE_POINT_WIDTH - 1)}
        \cup {<<AFFINE_POINT_WIDTH, 0, IF neg_d_g = IDENTITY THEN 0 ELSE 1>>}
        \cup {<<i, 0, 0>> : i \in (AFFINE_POINT_WIDTH + 1)..(PROJECTIVE_POINT_WIDTH - 1)}

\* TallyAir::get_assertions, END OF TRACE
TallyEndAssertions(encrypted_votes) ==
    LET num_votes == Len(encrypted_votes)
        neg_last_vote == compute_negation(encrypted_votes[num_votes])
    IN  {<<i, num_votes - 1, neg_last_vote[i + 1]>> : i \in 0..(AFFINE_POINT_WIDTH - 1)}

TallyGetAssertions(encrypted_votes, tally_result) ==
    TallyStartAssertions(Len(encrypted_votes), tally_result)
        \cup TallyEndAssertions(encrypted_votes)

\* the multiples of the generator Init draws votes from: G, -2G and -G
TallyVoteChoices == {1, GROUP_ORDER - 2, GROUP_ORDER - 1}

TallyVoteCounts == {n \in 1..MaxVotes : n >= 2 /\ IsPowerOfTwo(n)}

TallyPoints == [s \in TallyVoteChoices |-> SubSeq(ScaledGenerator(s), 1, AFFINE_POINT_WIDTH)]

TallyCases ==
    UNION {{[encrypted_votes |-> [i \in 1..n |-> TallyPoints[ss[i]]] \o <<>>,
             tally_result |-> t] :
                ss \in [1..n -> TallyVoteChoices], t \in 0..n} :
            n \in TallyVoteCounts}

TallyInit ==
    /\ prog = "tally"
    /\ \E case \in TallyCases :
          /\ wit = [case EXCEPT !.tally_result = @] @@
                   [accepted |-> naive_verify_tally_result(case.encrypted_votes,
                                                           case.tally_result)]
          /\ pub = case
    /\ pc = "start"
    /\ cycle = 0
    /\ step = 0
    /\ prev = <<>>
    /\ cur = <<>>
    /\ nrows = 0
    /\ air = <<>>
    /\ kept = <<>>
    /\ failed = {}
    /\ transBad = {}

TallyFailedAt(row, r) ==
    {<<a[1], a[2]>> :
        a \in FailedAt(TallyGetAssertions(pub.encrypted_votes, pub.tally_result), row, r)}

\* build_trace up to the first row
TallyStart ==
    /\ prog = "tally" /\ pc = "start"
    /\ IF TallyShapeOK(Len(wit.encrypted_votes), wit.tally_result)
       THEN LET row == TallyInitialState(Len(wit.encrypted_votes), wit.tally_result)
            IN  /\ pc' = "fill"
                /\ cur' = row
                /\ nrows' = 1
                /\ kept' = <<row>>
                /\ failed' = TallyFailedAt(row, 0)
       ELSE /\ pc' = "abort"
            /\ UNCHANGED <<cur, nrows, kept, failed>>
    /\ UNCHANGED <<prog, wit, pub, air, cycle, step, prev, transBad>>

\* one call of the update closure
TallyStep ==
    /\ prog = "tally" /\ pc = "fill"
    /\ step < Len(wit.encrypted_votes) - 1
    /\ LET row == TallyUpdate(step, Len(wit.encrypted_votes), wit.encrypted_votes, cur)
       IN  /\ prev' = cur
           /\ cur' = row
           /\ step' = step + 1
           /\ nrows' = nrows + 1
           /\ failed' = failed \cup TallyFailedAt(row, step + 1)
           /\ transBad' = IF TallyTransitionHolds(cur, row, step, pub.encrypted_votes)
                          THEN transBad ELSE transBad \cup {step}
    /\ UNCHANGED <<prog, wit, pub, air, kept, pc, cycle>>

\* the trace is full: build_trace returns
TallyReturn ==
    /\ prog = "tally" /\ pc = "fill"
    /\ step = Len(wit.encrypted_votes) - 1
    /\ pc' = "done"
    /\ UNCHANGED <<prog, wit, pub, air, kept, cycle, step, prev, cur, nrows, failed, transBad>>

TallyNext == TallyStart \/ TallyStep \/ TallyReturn

SpecTally == TallyInit /\ [][TallyNext]_vars

\* ------------------------------------------------------------------------
\* Vote encryption: AggregatorExample::new and encrypt_votes_and_compute_proofs
\* ------------------------------------------------------------------------

\* equality of ProjectivePoint: the same point up to the scaling of the coordinates
PointEq(P, Q) ==
    /\ XMul(Coord(P, 0), Coord(Q, 2)) = XMul(Coord(Q, 0), Coord(P, 2))
    /\ XMul(Coord(P, 1), Coord(Q, 2)) = XMul(Coord(Q, 1), Coord(P, 2))
    /\ XMul(Coord(P, 0), Coord(Q, 1)) = XMul(Coord(Q, 0), Coord(P, 1))

RECURSIVE FirstBlindingKey(_, _)
\* the identity minus the voting keys from the i-th on
FirstBlindingKey(voting_keys, i) ==
    IF i > Len(voting_keys) THEN IDENTITY
    ELSE LET rest == FirstBlindingKey(voting_keys, i + 1)
         IN  IF Len(rest) # PROJECTIVE_POINT_WIDTH THEN rest
             ELSE compute_add(rest, compute_negation(voting_keys[i]))

\* a blinding key that gains the key of voter i alone
NextBlindingKeyOwnOnly(blinding_key, voting_keys, i) ==
    IF i + 1 <= Len(voting_keys) THEN compute_add(blinding_key, voting_keys[i])
    ELSE blinding_key

\* the blinding key of voter i + 1 from the one of voter i (1-based)
NextBlindingKey(blinding_key, voting_keys, i) ==
    IF i + 1 <= Len(voting_keys)
    THEN compute_add(compute_add(blinding_key, voting_keys[i]), voting_keys[i + 1])
    ELSE blinding_key

\* the encrypted vote of encrypt_votes_and_compute_proofs, first loop
EncryptVote(blinding_key, secret_key, vote) ==
    LET masked == ScalarMul(secret_key, blinding_key)
    IN  IF Len(masked) # PROJECTIVE_POINT_WIDTH THEN masked
        ELSE IF vote THEN compute_add(masked, Projective(GENERATOR))
        ELSE compute_add(masked, compute_negation(Projective(GENERATOR)))

\* the secret keys Init draws
VoteSecretChoices == {1, 2, GROUP_ORDER - 1}

VoteCases ==
    UNION {{[secret_keys |-> xs,
             voting_keys |-> [i \in 1..n |-> ScalarMul(xs[i], Projective(GENERATOR))] \o <<>>] :
                xs \in [1..n -> VoteSecretChoices]} :
            n \in 2..MaxVoters}

VoteInit ==
    /\ prog = "vote"
    /\ \E case \in VoteCases : wit = case
    /\ pub = <<>>
    /\ pc = "start"
    /\ cycle = 0
    /\ step = 0
    /\ prev = <<>>
    /\ cur = <<>>
    /\ nrows = 0
    /\ air = <<>>
    /\ kept = <<>>
    /\ failed = {}
    /\ transBad = {}

\* the blinding key of the first voter
VoteStart ==
    /\ prog = "vote" /\ pc = "start"
    /\ cur' = FirstBlindingKey(wit.voting_keys, 2)
    /\ pc' = "fill"
    /\ UNCHANGED <<prog, wit, pub, air, kept, cycle, step, prev, nrows, failed, transBad>>

\* voter cycle + 1 votes: the blinding key is pushed and moved on, the vote encrypted
VoteCast ==
    /\ prog = "vote" /\ pc = "fill"
    /\ cycle < Len(wit.voting_keys)
    /\ \E vote \in BOOLEAN :
          kept' = Append(kept, [vote |-> vote,
                                blinding_key |-> cur,
                                encrypted_vote |-> EncryptVote(cur, wit.secret_keys[cycle + 1],
                                                               vote)])
    /\ prev' = cur
    /\ cur' = NextBlindingKey(cur, wit.voting_keys, cycle + 1)
    /\ cycle' = cycle + 1
    /\ UNCHANGED <<prog, wit, pub, air, pc, step, nrows, failed, transBad>>

\* all votes are encrypted
VoteReturn ==
    /\ prog = "vote" /\ pc = "fill"
    /\ cycle = Len(wit.voting_keys)
    /\ pc' = "done"
    /\ UNCHANGED <<prog, wit, pub, air, kept, cycle, step, prev, cur, nrows, failed, transBad>>

VoteNext == VoteStart \/ VoteCast \/ VoteReturn

SpecVote == VoteInit /\ [][VoteNext]_vars

\* ------------------------------------------------------------------------
\* Verifier: the byte strings of verify_register_proof, verify_cast_proof and
\* verify_tally_result, by their lengths and the counts they declare
\* ------------------------------------------------------------------------

BYTES_PER_ELEMENT == 8

BYTES_PER_AFFINE == AFFINE_POINT_WIDTH * BYTES_PER_ELEMENT

BYTES_PER_ADDRESS == 20

BYTES_PER_SCALAR == 32

BYTES_PER_SIGNATURE == POINT_COORDINATE_WIDTH * BYTES_PER_ELEMENT + BYTES_PER_SCALAR

\* the values of a u32, WordBits wide here
WordModulus == Pow(2, WordBits)

\* verify_register_proof on a register_proof of in.len bytes that declares in.num_regs
\* registrations and in.nbytes bytes of Merkle proof; ext holds what the deserialisers
\* and winterfell::verify return for the contents
verify_register_proof(in, ext) ==
    LET bound == 4 + BYTES_PER_AFFINE * in.num_regs
        bound2 == bound + (BYTES_PER_ADDRESS + BYTES_PER_SIGNATURE) * in.num_regs
    IN  IF in.len < 4 THEN "panic"
        ELSE IF bound > in.len THEN "panic"
        ELSE IF ~ext.inputs THEN "err"
        ELSE IF bound2 > in.len THEN "panic"
        ELSE IF ~ext.more_inputs THEN "err"
        ELSE IF bound2 + 4 > in.len THEN "panic"
        ELSE IF bound2 + 4 + in.nbytes > in.len THEN "panic"
        ELSE IF ~ext.proof THEN "err"
        ELSE IF ~ext.second_proof THEN "err"
        ELSE "ok"

\* verify_cast_proof on a cast_proof of in.len bytes that declares in.num_proofs proofs
\* and voting_keys of in.keys_len bytes that declare in.num_keys keys
verify_cast_proof(in, ext) ==
    LET bound == 4 + in.num_proofs * (2 * 5 * AFFINE_POINT_WIDTH * BYTES_PER_ELEMENT)
    IN  IF in.len < 4 THEN "panic"
        ELSE IF in.keys_len < 4 THEN "panic"
        ELSE IF in.num_proofs # in.num_keys THEN "err"
        ELSE IF ~ext.inputs THEN "err"
        ELSE IF bound > in.len THEN "panic"
        ELSE IF ~ext.proof THEN "err"
        ELSE "ok"

\* verify_tally_result on encrypted_votes of in.len bytes that declare in.num_votes
\* votes; checked is whether the build checks arithmetic overflow
verify_tally_result(in, tally_result, checked, ext) ==
    IF in.len < 4 THEN "panic"
    ELSE IF tally_result * 2 >= WordModulus /\ checked THEN "panic"
    ELSE IF 4 + in.num_votes * BYTES_PER_AFFINE > in.len THEN "err"
    ELSE IF ~ext.inputs THEN "err"
    ELSE "ok"

\* the lengths Init draws for a string whose well-formed length is `ideal`
LengthsNear(ideal) == {0, 3, 4} \cup {n \in {ideal - 1, ideal, ideal + 1} : n >= 0}

\* the counts a string declares: what its first four bytes hold, when it has them
CountsIn(len, counts) == IF len < 4 THEN {0} ELSE counts

RegisterCases(n) ==
    UNION {{[fn |-> "register", len |-> len, num_regs |-> c, nbytes |-> nb] :
                c \in CountsIn(len, {n}), nb \in CountsIn(len, {0, 2})} :
            len \in LengthsNear(4 + n * (BYTES_PER_AFFINE + BYTES_PER_ADDRESS
                                         + BYTES_PER_SIGNATURE) + 4 + 2)}

CastCases(n) ==
    UNION {{[fn |-> "cast", len |-> len, num_proofs |-> c, keys_len |-> klen,
             num_keys |-> k] :
                c \in CountsIn(len, {n}), k \in CountsIn(klen, 0..MaxItems)} :
            len \in LengthsNear(4 + n * (2 * 5 * BYTES_PER_AFFINE)),
            klen \in LengthsNear(4 + n * BYTES_PER_AFFINE)}

TallyResultCases(n) ==
    UNION {{[fn |-> "tally", len |-> len, num_votes |-> c, tally_result |-> t] :
                c \in CountsIn(len, {n}),
                t \in {0, 1, n, WordModulus \div 2, WordModulus - 1}} :
            len \in LengthsNear(4 + n * BYTES_PER_AFFINE)}

VerifierCases ==
    UNION {RegisterCases(n) \cup CastCases(n) \cup TallyResultCases(n) : n \in 0..MaxItems}

VerifierInit ==
    /\ prog = "verifier"
    /\ wit \in VerifierCases
    /\ pub = <<>>
    /\ pc = "start"
    /\ cycle = 0
    /\ step = 0
    /\ prev = <<>>
    /\ cur = <<>>
    /\ nrows = 0
    /\ air = <<>>
    /\ kept = <<>>
    /\ failed = {}
    /\ transBad = {}

\* what the deserialisers make of the contents, and what winterfell::verify returns
VerifierExternals == [inputs : BOOLEAN, more_inputs : BOOLEAN, proof : BOOLEAN,
                      second_proof : BOOLEAN, verified : BOOLEAN]

\* a call returns Ok(bool) or Err, or panics
VerifierReturn(outcome, verified) ==
    /\ pc' = outcome
    /\ cur' = IF outcome = "ok" THEN <<verified>> ELSE <<>>
    /\ UNCHANGED <<prog, wit, pub, air, kept, cycle, step, prev, nrows, failed, transBad>>

VerifyRegisterProof ==
    /\ prog = "verifier" /\ pc = "start" /\ wit.fn = "register"
    /\ \E ext \in VerifierExternals :
          VerifierReturn(verify_register_proof(wit, ext), ext.verified)

VerifyCastProof ==
    /\ prog = "verifier" /\ pc = "start" /\ wit.fn = "cast"
    /\ \E ext \in VerifierExternals :
          VerifierReturn(verify_cast_proof(wit, ext), ext.verified)

VerifyTallyResult ==
    /\ prog = "verifier" /\ pc = "start" /\ wit.fn = "tally"
    /\ \E ext \in VerifierExternals, checked \in BOOLEAN :
          VerifierReturn(verify_tally_result(wit, wit.tally_result, checked, ext),
                         ext.verified)

VerifierNext == VerifyRegisterProof \/ VerifyCastProof \/ VerifyTallyResult

SpecVerifier == VerifierInit /\ [][VerifierNext]_vars

\* ------------------------------------------------------------------------
\* Shapes of the witness of MerkleProver::build_trace
\* ------------------------------------------------------------------------

\* a vector cut to its first n items, or grown to n items by repeating its last
Resized(seq, n) == [i \in 1..n |-> IF i <= Len(seq) THEN seq[i] ELSE seq[Len(seq)]]

\* a tree of two keys with each vector of the witness cut or grown to 1..3 items
ShapeCasesOf(keys, idx, tree) ==
    {[wit |-> [tree_root |-> tree.tree_root,
               voting_keys |-> Resized(keys, nk),
               branches |-> Resized(tree.branches, nb),
               hash_indices |-> Resized(idx, ni),
               defect |-> <<"none", 0, 0>>, fault |-> <<"none", 0, 0, 0>>,
               accepted |-> TRUE],
      pub |-> [tree_root |-> tree.tree_root, voting_keys |-> Resized(keys, nk)]] :
        nk \in 1..3, nb \in 1..3, ni \in 1..3}

ShapeCases ==
    UNION {ShapeCasesOf(keys, idx, build_merkle_tree_from(keys, idx, seed)) :
            keys \in [1..2 -> MerkleKeyChoices],
            idx \in {<<0, 1>>, <<NumLeaves - 1, 0>>},
            seed \in MerkleSeeds}

ShapeInit ==
    /\ prog = "merkle"
    /\ \E case \in ShapeCases :
          /\ wit = case.wit
          /\ pub = case.pub
    /\ pc = "start"
    /\ cycle = 0
    /\ step = 0
    /\ prev = <<>>
    /\ cur = <<>>
    /\ nrows = 0
    /\ air = <<>>
    /\ kept = <<>>
    /\ failed = {}
    /\ transBad = {}

SpecShape == ShapeInit /\ [][MerkleNext]_vars

\* ------------------------------------------------------------------------
\* Fragments of a trace filled by concurrent workers
\* (trace.fragments(..).for_each of MerkleProver and CDSProver::build_trace)
\* ------------------------------------------------------------------------

\* number of rows of a fragment, and number of fragments
FragmentLength(w) ==
    IF w.prover = "merkle" THEN MERKLE_CYCLE_LENGTH ELSE CDS_CYCLE_LENGTH

FragmentCount(w) ==
    IF w.prover = "merkle" THEN Len(w.data.branches) ELSE Len(w.data.voting_keys)

\* a row mapping under which every fragment starts at the first row of the trace
FragmentRowShared(w, i, st) == st

\* position in the trace of row st of fragment i (0-based)
FragmentRow(w, i, st) ==
    IF w.prover = "merkle" THEN MerkleRow(i, st) ELSE CDSRow(i, st)

\* the init closure of fragment i (0-based)
FragmentInit(w, i) ==
    IF w.prover = "merkle"
    THEN init_merkle_verification_state(w.data.voting_keys[i + 1])
    ELSE init_cds_verification_state(i)

\* the update closure of fragment i (0-based) at step st
FragmentUpdate(w, i, st, state) ==
    IF w.prover = "merkle"
    THEN update_merkle_verification_state(
             st, MerkleHashMessage(w.data.voting_keys[i + 1], w.data.branches[i + 1]),
             2 * w.data.hash_indices[i + 1], state)
    ELSE update_cds_verification_state(st, w.data.items[i + 1], state)

\* the witnesses whose fragments Init lets workers fill: accepted ones
FragmentCases ==
    {[prover |-> "merkle", data |-> c.wit] :
        c \in {m \in MerkleCases : m.wit.defect[1] = "none" /\ m.wit.fault[1] = "none"}}
    \cup {[prover |-> "cds", data |-> c.wit] :
            c \in {CDSCase(b, <<"none", 0, 0>>, <<"none", 0, 0>>) :
                      b \in {p \in CDSProved : CDSFaultBase(p)}}}

FragmentsInit ==
    /\ prog = "fragments"
    /\ wit \in FragmentCases
    /\ pub = <<>>
    /\ pc = "start"
    /\ cycle = 0
    /\ step = <<>>
    /\ prev = <<>>
    /\ cur = <<>>
    /\ nrows = 0
    /\ air = <<>>
    /\ kept = <<>>
    /\ failed = {}
    /\ transBad = {}

\* build_trace up to for_each: the trace is allocated, one worker per fragment; kept
\* holds the trace, each worker's state buffer, and the rows written and witness items
\* read by each worker
FragmentsStart ==
    /\ prog = "fragments" /\ pc = "start"
    /\ LET n == FragmentCount(wit)
       IN  IF IF wit.prover = "merkle" THEN MerkleShapeOK(n) ELSE CDSShapeOK(n)
           THEN /\ pc' = "fill"
                /\ step' = [i \in 1..n |-> 0]
                /\ kept' = [trace |-> [r \in 1..(n * FragmentLength(wit)) |-> <<>>],
                            state |-> [i \in 1..n |-> <<>>],
                            writes |-> {}, reads |-> {}]
           ELSE /\ pc' = "abort"
                /\ UNCHANGED <<step, kept>>
    /\ UNCHANGED <<prog, wit, pub, air, cycle, prev, cur, nrows, failed, transBad>>

\* worker w writes `row` as row st of its fragment
FragmentWrite(w, st, row) ==
    LET r == FragmentRow(wit, w - 1, st)
    IN  /\ kept' = [kept EXCEPT !.trace[r + 1] = row,
                                !.state[w] = row,
                                !.writes = @ \cup {<<w, r>>},
                                !.reads = @ \cup {<<w, w>>}]
        /\ step' = [step EXCEPT ![w] = st + 1]
        /\ nrows' = nrows + 1
        /\ UNCHANGED <<prog, wit, pub, air, pc, cycle, prev, cur, failed, transBad>>

\* some worker runs the init closure of its fragment
FragmentInitRow ==
    /\ prog = "fragments" /\ pc = "fill"
    /\ \E w \in 1..FragmentCount(wit) :
          /\ step[w] = 0
          /\ FragmentWrite(w, 0, FragmentInit(wit, w - 1))

\* some worker runs the update closure of its fragment once
FragmentUpdateRow ==
    /\ prog = "fragments" /\ pc = "fill"
    /\ \E w \in 1..FragmentCount(wit) :
          /\ step[w] \in 1..(FragmentLength(wit) - 1)
          /\ FragmentWrite(w, step[w],
                           FragmentUpdate(wit, w - 1, step[w] - 1, kept.state[w]))

\* every worker has filled its fragment: for_each returns
FragmentsJoin ==
    /\ prog = "fragments" /\ pc = "fill"
    /\ \A w \in 1..FragmentCount(wit) : step[w] = FragmentLength(wit)
    /\ pc' = "done"
    /\ UNCHANGED <<prog, wit, pub, air, kept, cycle, step, prev, cur, nrows, failed, transBad>>

FragmentsNext == FragmentsStart \/ FragmentInitRow \/ FragmentUpdateRow \/ FragmentsJoin

SpecFragments == FragmentsInit /\ [][FragmentsNext]_vars

\* ------------------------------------------------------------------------
\* Vote collector (aggregator::cast)
\* ------------------------------------------------------------------------

\* VoteCollector::compute_blinding_keys
compute_blinding_keys(voting_keys) ==
    LET n == Len(voting_keys)
        skipped[j \in 1..n] ==
            IF j = 1 THEN IDENTITY
            ELSE compute_add_mixed(skipped[j - 1], compute_negation(voting_keys[j]))
        key[i \in 1..n] ==
            IF i = 1 THEN skipped[n]
            ELSE compute_add_mixed(
                    compute_add_mixed(key[i - 1], compute_negation(voting_keys[i - 1])),
                    compute_negation(voting_keys[i]))
    IN  [i \in 1..n |-> key[i]] \o <<>>

\* schnorr::projective_to_elements
projective_to_elements(point) == reduce_to_affine(point)

\* cds::verify_cds_proof: the check naive_verify_cds_proofs makes of one proof, with the
\* blinding key it is given
verify_cds_proof(voter_index, voting_key, blinding_key, encrypted_vote, proof_points, proof_scalars) ==
    LET vk == reduce_to_affine(voting_key)
        bk == reduce_to_affine(blinding_key)
        ev == reduce_to_affine(encrypted_vote)
        pts == [k \in 1..PROOF_NUM_POINTS |-> reduce_to_affine(proof_points[k])]
        evs == prepare_encrypted_votes(ev)
        s == proof_scalars
        c == challenge_of(voter_index, vk, ev, pts[1] \o pts[2] \o pts[3] \o pts[4])
    IN  /\ c = (s[1] + s[2]) % GROUP_ORDER
        /\ pts[1] = Combine(s[3], GENERATOR, s[1], vk)
        /\ pts[2] = Combine(s[3], bk, s[1], evs[1])
        /\ pts[3] = Combine(s[4], GENERATOR, s[2], vk)
        /\ pts[4] = Combine(s[4], bk, s[2], evs[2])

\* an Option: None, or Some(x) as the one-element sequence of x
None == <<>>

Some(x) == <<x>>

\* the EncryptedVote voter i (1-based) builds for blinding key bk, as
\* encrypt_votes_and_compute_proofs does, its first scalar off by `defect`
CollectorVote(voting_keys, secret_keys, i, bk, vote, defect) ==
    LET n3 == CDSNonces(i)
        ev == encrypted_vote_of(secret_keys[i], bk, vote)
        pts == proof_points_of(voting_keys[i], bk, ev, vote, n3[1], n3[2], n3[3])
        c == challenge_of(i - 1, voting_keys[i], ev, pts)
        s == proof_scalars_of(secret_keys[i], vote, n3[1], n3[2], n3[3], c)
    IN  [voter_index |-> i - 1,
         encrypted_vote |-> Projective(ev),
         proof_points |-> [k \in 1..PROOF_NUM_POINTS |->
                            Projective(Slice(pts, (k - 1) * AFFINE_POINT_WIDTH,
                                             k * AFFINE_POINT_WIDTH))] \o <<>>,
         proof_scalars |-> [s EXCEPT ![1] = (@ + defect) % GROUP_ORDER]]

\* the votes submitted to a collector: for the blinding key the collector holds and for
\* the one the voters compute, with and without a defect
CollectorPool(voting_keys, secret_keys) ==
    LET held == compute_blinding_keys(voting_keys)
    IN  UNION {{CollectorVote(voting_keys, secret_keys, i, bk, vote, defect) :
                    bk \in {reduce_to_affine(held[i]), BlindingKey(voting_keys, i)},
                    vote \in BOOLEAN, defect \in {0, 1}} :
               i \in 1..Len(voting_keys)}

CollectorCases ==
    {[voting_keys |-> c.voting_keys,
      pool |-> CollectorPool(c.voting_keys, c.secret_keys)] :
        c \in {v \in CDSVoters : /\ Len(v.voting_keys) = 2 /\ v.votes = <<TRUE, FALSE>>
                               /\ v.secret_keys[1] # v.secret_keys[2]}}

\* VoteCollector::new
CollectorInit ==
    /\ prog = "collector"
    /\ wit \in CollectorCases
    /\ pub = <<>>
    /\ pc = "new"
    /\ cycle = 0
    /\ step = 0
    /\ prev = <<>>
    /\ cur = <<>>
    /\ nrows = 0
    /\ air = <<>>
    /\ kept = [voting_keys |-> wit.voting_keys,
               blinding_keys |-> compute_blinding_keys(wit.voting_keys),
               encrypted_votes |-> [i \in 1..Len(wit.voting_keys) |-> None],
               proof_points |-> [i \in 1..Len(wit.voting_keys) |-> None],
               proof_scalars |-> [i \in 1..Len(wit.voting_keys) |-> None],
               num_valid_votes |-> 0,
               serialized_proof |-> <<>>]
    /\ failed = {}
    /\ transBad = {}

add_encrypted_vote_unchecked_uncounted(self, encrypted_vote) ==
    [self EXCEPT
        !.encrypted_votes[encrypted_vote.voter_index + 1] =
            Some(reduce_to_affine(encrypted_vote.encrypted_vote))]

\* VoteCollector::add_encrypted_vote_unchecked
add_encrypted_vote_unchecked(self, encrypted_vote) ==
    LET i == encrypted_vote.voter_index + 1
    IN  [self EXCEPT
            !.encrypted_votes[i] = Some(projective_to_elements(encrypted_vote.encrypted_vote)),
            !.proof_points[i] = Some(projective_to_elements(encrypted_vote.proof_points[1])
                                     \o projective_to_elements(encrypted_vote.proof_points[2])
                                     \o projective_to_elements(encrypted_vote.proof_points[3])
                                     \o projective_to_elements(encrypted_vote.proof_points[4])),
            !.proof_scalars[i] = Some(encrypted_vote.proof_scalars),
            !.num_valid_votes = @ + 1]

\* VoteCollector::add_encrypted_vote, the first if: the answer of verify_cds_proof
add_encrypted_vote_rejects(self, encrypted_vote) ==
    verify_cds_proof(encrypted_vote.voter_index,
                     Projective(self.voting_keys[encrypted_vote.voter_index + 1]),
                     self.blinding_keys[encrypted_vote.voter_index + 1],
                     encrypted_vote.encrypted_vote, encrypted_vote.proof_points,
                     encrypted_vote.proof_scalars)

add_encrypted_vote_repeats_never(self, encrypted_vote) == FALSE

\* VoteCollector::add_encrypted_vote, the second if: the voter has a stored vote
add_encrypted_vote_repeats(self, encrypted_vote) ==
    self.encrypted_votes[encrypted_vote.voter_index + 1] # None

\* VoteCollector::add_encrypted_vote; prev keeps the collector and the vote of the call
AddEncryptedVote ==
    /\ prog = "collector"
    /\ \E encrypted_vote \in wit.pool :
        /\ prev' = [call |-> "add_encrypted_vote", self |-> kept, vote |-> encrypted_vote]
        /\ IF add_encrypted_vote_rejects(kept, encrypted_vote)
           THEN cur' = [ret |-> "InvalidEncryptedVote", built |-> FALSE] /\ kept' = kept
           ELSE IF add_encrypted_vote_repeats(kept, encrypted_vote)
           THEN cur' = [ret |-> "InvalidEncryptedVote", built |-> FALSE] /\ kept' = kept
           ELSE /\ kept' = add_encrypted_vote_unchecked(kept, encrypted_vote)
                /\ cur' = [ret |-> "Ok", built |-> FALSE]
    /\ pc' = "returned"
    /\ UNCHANGED <<prog, wit, pub, air, cycle, step, nrows, failed, transBad>>

\* VoteCollector::get_cast_proof; the prover's answer is the STARK engine's
GetCastProof ==
    /\ prog = "collector"
    /\ prev' = [call |-> "get_cast_proof", self |-> kept, vote |-> None]
    /\ IF kept.num_valid_votes # Len(kept.voting_keys)
       THEN cur' = [ret |-> "NotEnoughEncryptedVotes", built |-> FALSE]
       ELSE IF Len(kept.serialized_proof) > 0
       THEN cur' = [ret |-> "Ok", built |-> FALSE]
       ELSE \E answer \in {"Ok", "Prover"} : cur' = [ret |-> answer, built |-> TRUE]
    /\ pc' = "returned"
    /\ UNCHANGED <<prog, wit, pub, air, kept, cycle, step, nrows, failed, transBad>>

CollectorNext == AddEncryptedVote \/ GetCastProof

SpecCollector == CollectorInit /\ [][CollectorNext]_vars

\* ------------------------------------------------------------------------
\* Byte strings (winterfell ByteWriter, ByteReader)
\* ------------------------------------------------------------------------

\* u32::to_le_bytes, ByteWriter::write_u32
u32_to_le_bytes(n) == [i \in 1..4 |-> (n \div Pow(256, i - 1)) % 256]

\* u32::to_be_bytes
u32_to_be_bytes(n) == [i \in 1..4 |-> (n \div Pow(256, 4 - i)) % 256]

\* u32::from_le_bytes
u32_from_le_bytes(bytes) ==
    bytes[1] + 256 * bytes[2] + Pow(256, 2) * bytes[3] + Pow(256, 3) * bytes[4]

\* u32::from_be_bytes
u32_from_be_bytes(bytes) ==
    bytes[4] + 256 * bytes[3] + Pow(256, 2) * bytes[2] + Pow(256, 3) * bytes[1]

\* Serializable::write_batch_into of field elements: each little-endian in
\* BYTES_PER_ELEMENT bytes (the elements are below 256 here)
write_batch_into(elements) ==
    [i \in 1..(Len(elements) * BYTES_PER_ELEMENT) |->
        IF (i - 1) % BYTES_PER_ELEMENT = 0 THEN elements[((i - 1) \div BYTES_PER_ELEMENT) + 1]
        ELSE 0]

\* BaseElement::read_batch_from(source, n) at offset `at`: the elements, or <<"Err">>
\* when bytes are missing or a value is not below the modulus
read_batch_from(source, at, n) ==
    IF at + n * BYTES_PER_ELEMENT > Len(source) THEN <<"Err">>
    ELSE IF \E k \in 0..(n - 1) :
                \/ source[at + k * BYTES_PER_ELEMENT + 1] >= MODULUS
                \/ \E j \in 2..BYTES_PER_ELEMENT : source[at + k * BYTES_PER_ELEMENT + j] # 0
    THEN <<"Err">>
    ELSE [k \in 1..n |-> source[at + (k - 1) * BYTES_PER_ELEMENT + 1]]

RECURSIVE ConcatAll(_, _)
\* the concatenation of the sequences of seqs from the i-th on
ConcatAll(seqs, i) == IF i > Len(seqs) THEN <<>> ELSE seqs[i] \o ConcatAll(seqs, i + 1)

\* ------------------------------------------------------------------------
\* Voter registrar (aggregator::register)
\* ------------------------------------------------------------------------

\* length of the message a voter signs (scaled: four chunks of the rate)
MSG_LENGTH == 4 * RATE_WIDTH

\* schnorr::prepare_message; an address is its four groups of five bytes, each group
\* read big-endian into the high bytes of a u64
prepare_message(voting_key, address) ==
    PadTo(voting_key \o [i \in 1..4 |-> (address[i] * Pow(2, 24)) % MODULUS], MSG_LENGTH)

\* schnorr::hash_message
hash_message(input, message) ==
    LET h0 == RescueDigest(PadTo(input, RATE_WIDTH))
        h1 == RescueMerge(h0, Slice(message, 0, RATE_WIDTH))
        h2 == RescueMerge(h1, Slice(message, RATE_WIDTH, 2 * RATE_WIDTH))
        h3 == RescueMerge(h2, Slice(message, 2 * RATE_WIDTH, 3 * RATE_WIDTH))
    IN  RescueMerge(h3, Slice(message, 3 * RATE_WIDTH, 4 * RATE_WIDTH))

\* schnorr::sign_messages, one signature, with nonce r
sign_message(voting_key, address, secret_key, r) ==
    LET r_point == reduce_to_affine(ScalarMul(r, Projective(GENERATOR)))
        r_x == Slice(r_point, 0, POINT_COORDINATE_WIDTH) \o <<>>
        h == hash_message(r_x, prepare_message(voting_key, address))
        h_scalar == ScalarFromBits(Slice(h, 0, 4))
    IN  <<r_x, (r + GROUP_ORDER * GROUP_ORDER - secret_key * h_scalar) % GROUP_ORDER>>

\* schnorr::verify_signature
verify_signature(voting_key, address, signature) ==
    LET s_point == ScalarMul(signature[2], Projective(GENERATOR))
        h == hash_message(signature[1], prepare_message(voting_key, address))
        h_scalar == ScalarFromBits(Slice(h, 0, 4))
        h_pubkey_point == ScalarMul(h_scalar, Projective(voting_key))
        r_point == reduce_to_affine(compute_add(s_point, h_pubkey_point))
    IN  Slice(r_point, 0, POINT_COORDINATE_WIDTH) \o <<>> = signature[1]

\* the secret keys of the eligible voters, the leaves their keys are at (the first voter
\* is listed at two leaves), and the addresses registrations carry
RegistarSecrets == <<2, 5, 3, 2>>

RegistarLeaves == <<0, 1, 3, 2>>

RegistarAddresses == <<<<1, 0, 0, 0>>, <<2, 0, 0, 0>>, <<3, 0, 0, 1>>>>

\* the registrations submitted: <<voter, address, fault>>
RegistarSubmissions ==
    {<<1, 1, "none">>, <<1, 2, "none">>, <<2, 1, "none">>, <<2, 2, "none">>,
     <<3, 1, "none">>, <<3, 3, "none">>, <<4, 2, "none">>,
     <<2, 1, "branch">>, <<2, 1, "signature">>, <<3, 3, "branch">>, <<1, 2, "signature">>}

RegistarKeys ==
    [k \in 1..Len(RegistarSecrets) |->
        reduce_to_affine(ScalarMul(RegistarSecrets[k], Projective(GENERATOR)))] \o <<>>

\* the Registration of eligible voter k for an address: its branch of the tree and its
\* signature, the branch or the signature scalar off by one under a fault
RegistrationOf(tree, k, address, fault) ==
    LET signature == sign_message(RegistarKeys[k], address, RegistarSecrets[k], 3 + k)
    IN  [voting_key |-> RegistarKeys[k],
         merkle_branch |-> IF fault = "branch" THEN Bump(tree.branches[k], 1)
                           ELSE tree.branches[k],
         hash_index |-> RegistarLeaves[k],
         signature |-> IF fault = "signature"
                       THEN <<signature[1], (signature[2] + 1) % GROUP_ORDER>>
                       ELSE signature,
         address |-> address]

RegistarPool(tree) ==
    {RegistrationOf(tree, x[1], RegistarAddresses[x[2]], x[3]) : x \in RegistarSubmissions}

\* a registrar's inputs: the root, the number of eligible voters, the registrations, and
\* of these the ones verify_merlke_proof and verify_signature accept
RegistarCaseOf(tree, n, pool) ==
    [elg_root |-> tree.tree_root, num_elg_voters |-> n, pool |-> pool,
     merkle_valid |-> {r \in pool : verify_merlke_proof(tree.tree_root, r.voting_key,
                                                        r.merkle_branch, r.hash_index)},
     signature_valid |-> {r \in pool : verify_signature(r.voting_key, r.address,
                                                        r.signature)}]

RegistarCases ==
    LET tree == build_merkle_tree_from(RegistarKeys, RegistarLeaves, 1)
    IN  {RegistarCaseOf(tree, n, RegistarPool(tree)) : n \in 1..2}

\* VoterRegistar::new
RegistarInit ==
    /\ prog = "registar"
    /\ wit \in RegistarCases
    /\ pub = <<>>
    /\ pc = "new"
    /\ cycle = 0
    /\ step = 0
    /\ prev = <<>>
    /\ cur = <<>>
    /\ nrows = 0
    /\ air = <<>>
    /\ kept = [elg_root |-> wit.elg_root,
               num_elg_voters |-> wit.num_elg_voters,
               voting_keys |-> <<>>,
               merkle_branches |-> <<>>,
               hash_indices |-> <<>>,
               signatures |-> <<>>,
               addresses |-> <<>>,
               dirty_flag |-> FALSE,
               serialized_proof |-> <<>>]
    /\ failed = {}
    /\ transBad = {}

\* Iterator::position: the first index (1-based) of x in seq, 0 for None
Position(seq, x) ==
    IF \E i \in 1..Len(seq) : seq[i] = x
    THEN CHOOSE i \in 1..Len(seq) : seq[i] = x /\ \A j \in 1..(i - 1) : seq[j] # x
    ELSE 0

add_registration_duplicated_never(self, registration) == FALSE

\* VoterRegistar::add_registration, the first check: the address is stored under
\* another voting key
add_registration_duplicated(self, registration) ==
    /\ Position(self.addresses, registration.address) # 0
    /\ self.voting_keys[Position(self.addresses, registration.address)]
            # registration.voting_key

add_registration_full_never(self) == FALSE

\* VoterRegistar::add_registration_unchecked, the check before the pushes
add_registration_full(self) == Len(self.voting_keys) + 1 > self.num_elg_voters

\* an overwrite that appends instead
add_registration_replace_push(self, registration, idx) ==
    [self EXCEPT !.voting_keys = Append(@, registration.voting_key),
                 !.merkle_branches = Append(@, registration.merkle_branch),
                 !.hash_indices = Append(@, registration.hash_index),
                 !.signatures = Append(@, registration.signature),
                 !.addresses = Append(@, registration.address)]

\* VoterRegistar::add_registration_unchecked, idx.is_some(): the entry is overwritten
add_registration_replace(self, registration, idx) ==
    [self EXCEPT !.voting_keys[idx] = registration.voting_key,
                 !.merkle_branches[idx] = registration.merkle_branch,
                 !.hash_indices[idx] = registration.hash_index,
                 !.signatures[idx] = registration.signature,
                 !.addresses[idx] = registration.address]

\* VoterRegistar::add_registration_unchecked: <<result, registrar>>
add_registration_unchecked(self, registration, idx) ==
    IF idx # 0
    THEN <<"Ok", [add_registration_replace(self, registration, idx)
                    EXCEPT !.dirty_flag = TRUE]>>
    ELSE IF add_registration_full(self)
    THEN <<"TooManyRegistrations", self>>
    ELSE <<"Ok", [self EXCEPT !.voting_keys = Append(@, registration.voting_key),
                              !.merkle_branches = Append(@, registration.merkle_branch),
                              !.hash_indices = Append(@, registration.hash_index),
                              !.signatures = Append(@, registration.signature),
                              !.addresses = Append(@, registration.address),
                              !.dirty_flag = TRUE]>>

\* VoterRegistar::add_registration; the answers of verify_merlke_proof for self.elg_root
\* and of verify_signature are looked up in wit; prev keeps the registrar and the
\* registration of the call
AddRegistration ==
    /\ prog = "registar" /\ pc # "panic"
    /\ \E registration \in wit.pool :
        /\ prev' = [call |-> "add_registration", self |-> kept, registration |-> registration]
        /\ IF add_registration_duplicated(kept, registration)
           THEN cur' = "DuplicatedEthAddress" /\ kept' = kept
           ELSE IF registration \notin wit.merkle_valid
           THEN cur' = "InvalidMerkleProof" /\ kept' = kept
           ELSE IF registration \notin wit.signature_valid
           THEN cur' = "InvalidSchnorrSig" /\ kept' = kept
           ELSE LET done == add_registration_unchecked(kept, registration,
                                Position(kept.voting_keys, registration.voting_key))
                IN  cur' = done[1] /\ kept' = done[2]
    /\ pc' = "returned"
    /\ UNCHANGED <<prog, wit, pub, air, cycle, step, nrows, failed, transBad>>

\* Address::as_bytes: the twenty bytes, four groups of five with the value in the last
address_bytes(address) == ConcatAll([i \in 1..4 |-> <<0, 0, 0, 0, address[i]>>], 1)

\* Scalar::write_into: BYTES_PER_SCALAR bytes little-endian (the scalars are below 256)
scalar_bytes(s) == <<s>> \o Zeros(BYTES_PER_SCALAR - 1)

\* register::CompactPublicInputs::write_into
compact_pub_inputs_bytes(voting_keys, addresses, signatures) ==
    u32_to_le_bytes(Len(voting_keys))
        \o ConcatAll([i \in 1..Len(voting_keys) |-> write_batch_into(voting_keys[i])], 1)
        \o ConcatAll([i \in 1..Len(addresses) |-> address_bytes(addresses[i])], 1)
        \o ConcatAll([i \in 1..Len(signatures) |->
                        write_batch_into(signatures[i][1]) \o scalar_bytes(signatures[i][2])], 1)

\* get_register_proof without the length of the Merkle proof
register_proof_bytes_no_length(self, merkle_proof_bytes, schnorr_proof_bytes) ==
    compact_pub_inputs_bytes(self.voting_keys, self.addresses, self.signatures)
        \o merkle_proof_bytes \o schnorr_proof_bytes

\* the bytes get_register_proof serializes: the compact public inputs, the length of the
\* Merkle proof, the Merkle proof, the Schnorr proof
register_proof_bytes(self, merkle_proof_bytes, schnorr_proof_bytes) ==
    compact_pub_inputs_bytes(self.voting_keys, self.addresses, self.signatures)
        \o u32_to_le_bytes(Len(merkle_proof_bytes)) \o merkle_proof_bytes \o schnorr_proof_bytes

\* the proofs the two provers may return, as bytes (their content is the STARK engine's)
RegistarMerkleProofs == {<<7>>, <<7, 8, 9>>}

RegistarSchnorrProof == <<5, 6>>

\* get_register_proof returns the cached bytes when the flag is down
get_register_proof_cached(self) == ~self.dirty_flag

\* VoterRegistar::get_register_proof; the answer of the two provers is the STARK
\* engine's. pub records what the provers were given and returned when the bytes were
\* generated, air the bytes the call returns
GetRegisterProof ==
    /\ prog = "registar" /\ pc # "panic"
    /\ prev' = [call |-> "get_register_proof", self |-> kept, registration |-> <<>>]
    /\ IF get_register_proof_cached(kept)
       THEN /\ cur' = "Ok" /\ kept' = kept /\ pc' = "returned"
            /\ air' = kept.serialized_proof
            /\ pub' = pub
       ELSE \E answer \in {"Ok", "Prover", "panic"} :
            \E merkle_proof_bytes \in RegistarMerkleProofs :
            /\ answer = "panic" => ~MerkleShapeOK(Len(kept.voting_keys))
            /\ answer # "Ok" => merkle_proof_bytes = <<7>>
            /\ cur' = answer
            /\ pc' = IF answer = "panic" THEN "panic" ELSE "returned"
            /\ LET serialized_proof ==
                       register_proof_bytes(kept, merkle_proof_bytes, RegistarSchnorrProof)
               IN  IF answer = "Ok"
                   THEN /\ kept' = [kept EXCEPT !.serialized_proof = serialized_proof,
                                                !.dirty_flag = FALSE]
                        /\ air' = serialized_proof
                        /\ pub' = [voting_keys |-> kept.voting_keys,
                                   addresses |-> kept.addresses,
                                   signatures |-> kept.signatures,
                                   merkle_proof |-> merkle_proof_bytes,
                                   schnorr_proof |-> RegistarSchnorrProof]
                   ELSE kept' = kept /\ air' = <<>> /\ pub' = pub
    /\ UNCHANGED <<prog, wit, cycle, step, nrows, failed, transBad>>

\* number of bytes of a voting key in a register proof
BYTES_PER_VOTING_KEY == BYTES_PER_AFFINE

\* merkle::PublicInputs::from_bytes (read_from): the root, the count, the keys
merkle_pub_inputs_from_bytes(source) ==
    LET at == DIGEST_SIZE * BYTES_PER_ELEMENT
        tree_root == read_batch_from(source, 0, DIGEST_SIZE)
    IN  IF tree_root = <<"Err">> \/ at + 4 > Len(source) THEN [ok |-> FALSE]
        ELSE LET num_voters == u32_from_le_bytes(Slice(source, at, at + 4))
                 voting_keys == [k \in 1..num_voters |->
                                    read_batch_from(source,
                                                    at + 4 + (k - 1) * AFFINE_POINT_WIDTH * BYTES_PER_ELEMENT,
                                                    AFFINE_POINT_WIDTH)]
             IN  IF \E k \in 1..num_voters : voting_keys[k] = <<"Err">> THEN [ok |-> FALSE]
                 ELSE [ok |-> TRUE, tree_root |-> tree_root, voting_keys |-> voting_keys]

\* verifier::verify_register_proof up to the call of the STARK verifier: the sections it
\* slices out of the bytes, "panic" when a slice is out of range, "Err" when the Merkle
\* public inputs do not deserialize
split_register_proof(elg_root, register_proof) ==
    IF Len(register_proof) < 4 THEN [status |-> "panic"]
    ELSE
    LET num_regs == u32_from_le_bytes(Slice(register_proof, 0, 4))
        keys_bound == 4 + BYTES_PER_VOTING_KEY * num_regs
        bound == keys_bound + (BYTES_PER_ADDRESS + BYTES_PER_SIGNATURE) * num_regs
    IN  IF bound + 4 > Len(register_proof) THEN [status |-> "panic"]
        ELSE
        LET merkle_pub_inputs ==
                merkle_pub_inputs_from_bytes(write_batch_into(elg_root)
                                                \o Slice(register_proof, 0, keys_bound))
            merkle_proof_nbytes == u32_from_le_bytes(Slice(register_proof, bound, bound + 4))
        IN  IF ~merkle_pub_inputs.ok THEN [status |-> "Err"]
            ELSE IF bound + 4 + merkle_proof_nbytes > Len(register_proof)
            THEN [status |-> "panic"]
            ELSE [status |-> "split",
                  num_regs |-> num_regs,
                  merkle_pub_inputs |-> merkle_pub_inputs,
                  schnorr_pub_inputs |-> Slice(register_proof, 0, bound) \o <<>>,
                  merkle_proof |-> Slice(register_proof, bound + 4,
                                         bound + 4 + merkle_proof_nbytes) \o <<>>,
                  schnorr_proof |-> Slice(register_proof, bound + 4 + merkle_proof_nbytes,
                                          Len(register_proof)) \o <<>>]

\* verify_register_proof on the bytes get_register_proof has just returned
RegistarVerifyProof ==
    /\ prog = "registar" /\ pc = "returned"
    /\ prev.call = "get_register_proof" /\ cur = "Ok"
    /\ cur' = split_register_proof(kept.elg_root, air)
    /\ pc' = "verified"
    /\ UNCHANGED <<prog, wit, pub, air, prev, kept, cycle, step, nrows, failed, transBad>>

RegistarNext == AddRegistration \/ GetRegisterProof \/ RegistarVerifyProof

SpecRegistar == RegistarInit /\ [][RegistarNext]_vars

\* ------------------------------------------------------------------------
\* Vote tallier (aggregator::tally) and verify_tally_result on its votes
\* ------------------------------------------------------------------------

\* the bytes tally_test_all_valid writes: write_u32 of the count, then the votes
TallierVoteBytes(encrypted_votes) ==
    u32_to_le_bytes(Len(encrypted_votes))
        \o ConcatAll([i \in 1..Len(encrypted_votes) |-> write_batch_into(encrypted_votes[i])], 1)

RECURSIVE ReadVotesFrom(_, _, _, _)
\* the loop of verify_tally_result from vote i on: the sum, or <<"Err">>
ReadVotesFrom(actual, source, i, num_votes) ==
    IF i = num_votes THEN actual
    ELSE LET encrypted_vote == read_batch_from(source, 4 + i * BYTES_PER_AFFINE,
                                               AFFINE_POINT_WIDTH)
         IN  IF encrypted_vote = <<"Err">> THEN <<"Err">>
             ELSE ReadVotesFrom(compute_add_mixed(actual, encrypted_vote), source, i + 1,
                                num_votes)

\* a difference that is always tally_result * 2 - num_votes, never negated
tally_diff_unsigned(tally_result, num_votes) ==
    IF tally_result * 2 > num_votes THEN (tally_result * 2 - num_votes) % GROUP_ORDER
    ELSE (num_votes - tally_result * 2) % GROUP_ORDER

\* verify_tally_result: diff
tally_diff(tally_result, num_votes) ==
    IF tally_result * 2 > num_votes THEN (tally_result * 2 - num_votes) % GROUP_ORDER
    ELSE (GROUP_ORDER - ((num_votes - tally_result * 2) % GROUP_ORDER)) % GROUP_ORDER

\* verifier::verify_tally_result on the bytes of the votes: <<"Ok", bool>>, <<"Err">>
\* or <<"panic">>
verify_tally_result_bytes(encrypted_votes, tally_result) ==
    IF Len(encrypted_votes) < 4 THEN <<"panic">>
    ELSE LET num_votes == u32_from_le_bytes(Slice(encrypted_votes, 0, 4))
             expected == ScalarMul(tally_diff(tally_result, num_votes), Projective(GENERATOR))
             actual == ReadVotesFrom(IDENTITY, encrypted_votes, 0, num_votes)
         IN  IF actual = <<"Err">> THEN <<"Err">>
             ELSE <<"Ok", PointEq(expected, actual)>>

\* Scalar::invert
ScalarInvert(a) == CHOOSE b \in 1..(GROUP_ORDER - 1) : (a * b) % GROUP_ORDER = 1

\* a sum that is not halved
tally_yes_sum_whole(encrypted_votes) ==
    SumFrom(ScalarMul(Len(encrypted_votes) % GROUP_ORDER, Projective(GENERATOR)),
            encrypted_votes, 1)

\* VoteTallier::tally_votes: yes_sum
tally_yes_sum(encrypted_votes) ==
    ScalarMul(ScalarInvert(2),
              SumFrom(ScalarMul(Len(encrypted_votes) % GROUP_ORDER, Projective(GENERATOR)),
                      encrypted_votes, 1))

\* the votes a tallier is given: points G, -G and -2G, and the encrypted votes of two
\* voters with their blinding keys; yes is the number of yes votes of honest voters,
\* -1 when a vote is none of theirs
TallierCases ==
    UNION {{[encrypted_votes |-> [i \in 1..n |-> TallyPoints[ss[i]]] \o <<>>,
             yes |-> IF \E i \in 1..n : ss[i] = GROUP_ORDER - 2 THEN 0 - 1
                     ELSE Cardinality({i \in 1..n : ss[i] = 1})] :
                ss \in [1..n -> TallyVoteChoices]} :
            n \in 0..MaxVotes}
    \cup {[encrypted_votes |-> c.encrypted_votes,
           yes |-> Cardinality({i \in 1..Len(c.votes) : c.votes[i]})] :
            c \in {e \in CDSEncrypted : Len(e.votes) = 2}}

\* VoteTallier::new
TallierInit ==
    /\ prog = "tallier"
    /\ wit \in TallierCases
    /\ pub = <<>>
    /\ pc = "new"
    /\ cycle = 0
    /\ step = 0
    /\ prev = <<>>
    /\ cur = <<>>
    /\ nrows = 0
    /\ air = <<>>
    /\ kept = [encrypted_votes |-> wit.encrypted_votes, tally_result |-> None]
    /\ failed = {}
    /\ transBad = {}

\* VoteTallier::tally_votes up to the loop: the stored result is returned, or the
\* search starts; prev holds yes_sum, tmp and tally_result, step counts the loop's steps
TallyVotesCall ==
    /\ prog = "tallier" /\ pc \in {"new", "returned", "verified"}
    /\ IF kept.tally_result # None
       THEN /\ cur' = [ret |-> "Ok", value |-> kept.tally_result[1], stored |-> TRUE]
            /\ pc' = "returned"
            /\ UNCHANGED <<prev, step>>
       ELSE /\ prev' = [yes_sum |-> tally_yes_sum(kept.encrypted_votes),
                        tmp |-> IDENTITY, tally_result |-> 0]
            /\ step' = 0
            /\ pc' = "search"
            /\ cur' = <<>>
    /\ UNCHANGED <<prog, wit, pub, air, kept, cycle, nrows, failed, transBad>>

\* one pass of the while loop
TallySearchStep ==
    /\ prog = "tallier" /\ pc = "search"
    /\ ~PointEq(prev.tmp, prev.yes_sum) /\ prev.tally_result <= Len(kept.encrypted_votes)
    /\ prev' = [prev EXCEPT !.tmp = compute_add_mixed(@, GENERATOR),
                            !.tally_result = @ + 1]
    /\ step' = step + 1
    /\ UNCHANGED <<prog, wit, pub, air, kept, pc, cur, cycle, nrows, failed, transBad>>

\* the loop is left: Err(InvalidTallyResult), or the result is stored and returned
TallyVotesReturn ==
    /\ prog = "tallier" /\ pc = "search"
    /\ ~(~PointEq(prev.tmp, prev.yes_sum) /\ prev.tally_result <= Len(kept.encrypted_votes))
    /\ IF prev.tally_result > Len(kept.encrypted_votes)
       THEN /\ cur' = [ret |-> "InvalidTallyResult", value |-> 0, stored |-> FALSE]
            /\ kept' = kept
       ELSE /\ kept' = [kept EXCEPT !.tally_result = Some(prev.tally_result)]
            /\ cur' = [ret |-> "Ok", value |-> prev.tally_result, stored |-> FALSE]
    /\ pc' = "returned"
    /\ UNCHANGED <<prog, wit, pub, air, prev, step, cycle, nrows, failed, transBad>>

\* verify_tally_result(&encrypted_votes, tally_result) as the tally tests call it, for
\* any tally_result up to the number of votes; pub holds the bytes, cycle the result asked
VerifyTallierResult ==
    /\ prog = "tallier" /\ pc \in {"new", "returned", "verified"}
    /\ \E tally_result \in 0..Len(kept.encrypted_votes) :
        /\ cycle' = tally_result
        /\ pub' = TallierVoteBytes(kept.encrypted_votes)
        /\ cur' = verify_tally_result_bytes(TallierVoteBytes(kept.encrypted_votes),
                                            tally_result)
    /\ pc' = "verified"
    /\ UNCHANGED <<prog, wit, air, kept, prev, step, nrows, failed, transBad>>

TallierNext == TallyVotesCall \/ TallySearchStep \/ TallyVotesReturn \/ VerifyTallierResult

SpecTallier == TallierInit /\ [][TallierNext]_vars

\* ------------------------------------------------------------------------
\* Cast proof check: the bytes of get_cast_proof and of the voting keys, as
\* cast_test_all_valid and the precompile hand them to verify_cast_proof
\* ------------------------------------------------------------------------

\* the numbers of voters of a collector: more than one, a power of two
CastVoterCounts == {n \in 2..MaxVoters : IsPowerOfTwo(n)}

\* the lengths of the serialized STARK proof Init draws
CastProofLengths == {0, 1, 5}

CastCallers == {"test", "precompile"}

CastInputs ==
    UNION {{[voting_keys |-> [i \in 1..n |->
                                reduce_to_affine(ScalarMul(xs[i], Projective(GENERATOR)))]
                             \o <<>>,
             proof_len |-> len, caller |-> caller] :
                xs \in [1..n -> CDSSecretChoices], len \in CastProofLengths,
                caller \in CastCallers} :
            n \in CastVoterCounts}

CastInit ==
    /\ prog = "cast"
    /\ wit \in CastInputs
    /\ pub = <<>>
    /\ pc = "new"
    /\ cycle = 0
    /\ step = 0
    /\ prev = <<>>
    /\ cur = <<>>
    /\ nrows = 0
    /\ air = <<>>
    /\ kept = <<>>
    /\ failed = {}
    /\ transBad = {}

\* CompactPublicInputs::write_into: the count of proofs, by write_u32
cast_proof_count(num_proofs) == u32_to_le_bytes(num_proofs)

\* get_cast_proof of a collector that holds a valid vote of every voter: kept is the
\* serialized proof, its first four bytes and its length
CastGetProof ==
    /\ prog = "cast" /\ pc = "new"
    /\ kept' = [count |-> cast_proof_count(Len(wit.voting_keys)),
                len |-> 4 + Len(wit.voting_keys) * (2 * 5 * AFFINE_POINT_WIDTH
                                                    * BYTES_PER_ELEMENT)
                        + wit.proof_len]
    /\ pc' = "proved"
    /\ UNCHANGED <<prog, wit, pub, air, cycle, step, prev, cur, nrows, failed, transBad>>

\* the voting-key bytes of cast_test_all_valid
test_voting_keys(voting_keys) ==
    u32_to_be_bytes(Len(voting_keys))
        \o ConcatAll([i \in 1..Len(voting_keys) |-> write_batch_into(voting_keys[i])], 1)

\* the voting-key bytes verify_cast_proof_run cuts from its input
precompile_voting_keys(input) ==
    LET num_keys == u32_from_be_bytes(Slice(input, 0, 4))
        key_end == 4 + num_keys * BYTES_PER_AFFINE
    IN  Slice(input, 0, key_end)

\* pub is the voting-key bytes the caller builds
CastBuildKeys ==
    /\ prog = "cast" /\ pc = "proved"
    /\ pub' = IF wit.caller = "test" THEN test_voting_keys(wit.voting_keys)
              ELSE precompile_voting_keys(test_voting_keys(wit.voting_keys)
                                          \o kept.count \o Zeros(kept.len - 4))
    /\ pc' = "built"
    /\ UNCHANGED <<prog, wit, air, kept, cycle, step, prev, cur, nrows, failed, transBad>>

\* verify_cast_proof(&voting_keys, &cast_proof); the deserializers accept the bytes of
\* an honest collector, the answer of winterfell::verify is the engine's
CastVerify ==
    /\ prog = "cast" /\ pc = "built"
    /\ \E ext \in {e \in VerifierExternals : e.inputs /\ e.proof} :
        LET in == [len |-> kept.len, num_proofs |-> u32_from_le_bytes(kept.count),
                   keys_len |-> Len(pub), num_keys |-> u32_from_le_bytes(Slice(pub, 0, 4))]
        IN  /\ pc' = verify_cast_proof(in, ext)
            /\ cur' = IF verify_cast_proof(in, ext) = "ok" THEN <<ext.verified>> ELSE <<>>
    /\ UNCHANGED <<prog, wit, pub, air, kept, cycle, step, prev, nrows, failed, transBad>>

CastNext == CastGetProof \/ CastBuildKeys \/ CastVerify

SpecCast == CastInit /\ [][CastNext]_vars

\* ------------------------------------------------------------------------
\* Voter index of a CDS cycle (cds::trace, cds::air, cds::points_to_hash_message)
\* ------------------------------------------------------------------------

\* largest batch of proofs Init draws
MaxBatch == 512

\* BaseElement::from(voter_index as u8): the cast keeps the low eight bits, and the field
\* of the source holds every byte as itself (its modulus is far above 255, unlike MODULUS)
index_element(voter_index) == voter_index % 256

\* the batches CDSProver::build_trace accepts
IndexBatches == {n \in 2..MaxBatch : CDSShapeOK(n)}

IndexInit ==
    /\ prog = "index"
    /\ wit \in IndexBatches
    /\ pub = <<>>
    /\ pc = "fill"
    /\ cycle = 0
    /\ step = 0
    /\ prev = <<>>
    /\ cur = <<>>
    /\ nrows = 0
    /\ air = <<>>
    /\ kept = <<>>
    /\ failed = {}
    /\ transBad = {}

\* the start of fragment `cycle`: init_cds_verification_state writes the first hash
\* register (kept), get_assertions pins it (air), points_to_hash_message and
\* prepare_hash_message put the same element first in the message (cur)
IndexFragmentInit ==
    /\ prog = "index" /\ pc = "fill"
    /\ cycle < wit
    /\ kept' = Append(kept, index_element(cycle))
    /\ air' = Append(air, index_element(cycle))
    /\ cur' = index_element(cycle)
    /\ cycle' = cycle + 1
    /\ UNCHANGED <<prog, wit, pub, pc, step, prev, nrows, failed, transBad>>

IndexNext == IndexFragmentInit

SpecIndex == IndexInit /\ [][IndexNext]_vars

\* ------------------------------------------------------------------------
\* Merkle membership: properties
\* ------------------------------------------------------------------------

MerkleItems == Len(wit.branches)

\* the public inputs are the prover's and every key passes verify_merlke_proof
\* (wit.accepted is naive_verify_merkle_proofs of the witness, taken in Init)
MerkleHonest ==
    /\ prog = "merkle"
    /\ wit.fault[1] = "none"
    /\ wit.accepted

\* the registers the END OF TRACE assertions name, at the last row of the cycle of item k
MerkleRootCells(k) == {<<i, MerkleRow(k - 1, MERKLE_CYCLE_LENGTH - 1)>> : i \in 1..RATE_WIDTH}

\* C1: for keys that pass verify_merlke_proof, the trace MerkleProver::build_trace
\* writes satisfies every transition constraint of MerkleAir at every row and every
\* boundary assertion (key coordinates, position bit, root at the end of every cycle),
\* and has N * MERKLE_CYCLE_LENGTH rows.
C1_HonestTraceSatisfiesAir ==
    MerkleHonest =>
        /\ pc # "abort"
        /\ transBad = {}
        /\ failed = {}
        /\ pc = "done" => nrows = MerkleItems * MERKLE_CYCLE_LENGTH

C1_Witness ==
    /\ MerkleHonest
    /\ pc = "done"
    /\ MerkleItems = 2
    /\ wit.defect[1] = "none"
    /\ \E k \in 1..2 : wit.hash_indices[k] % 2 = 1

\* C6: with one key coordinate or one root element of the public inputs changed, the
\* honest trace violates at least one boundary assertion.
C6_ChangedPublicInputFailsAssertion ==
    (prog = "merkle" /\ pc = "done" /\ wit.fault[1] # "none") => failed # {}

C6_Witness ==
    /\ prog = "merkle" /\ pc = "done"
    /\ wit.fault[1] = "key"
    /\ wit.fault[3] = AFFINE_POINT_WIDTH
    /\ failed # {}

\* C10: a well-shaped witness with one wrong sibling element or one wrong index bit is
\* built to the end, with N * MERKLE_CYCLE_LENGTH rows; every transition constraint
\* holds, and the only assertions that can fail are the root assertions at the last
\* row of the defective item's cycle, which fail exactly when verify_merlke_proof
\* rejects the witness.
C10_DefectShowsOnlyAtRoot ==
    (prog = "merkle" /\ wit.defect[1] # "none") =>
        LET k == wit.defect[2] IN
        /\ pc # "abort"
        /\ transBad = {}
        /\ failed \subseteq MerkleRootCells(k)
        /\ pc = "done" =>
            /\ nrows = MerkleItems * MERKLE_CYCLE_LENGTH
            /\ (failed = {}) <=> wit.accepted

C10_Witness ==
    /\ prog = "merkle" /\ pc = "done"
    /\ wit.defect[1] = "bit"
    /\ wit.defect[2] = 1
    /\ MerkleItems = 2
    /\ failed # {}
    /\ failed \subseteq MerkleRootCells(1)
    /\ nrows = 2 * MERKLE_CYCLE_LENGTH

\* ------------------------------------------------------------------------
\* CDS proofs: properties
\* ------------------------------------------------------------------------

CDSItems == Len(wit.voting_keys)

\* the trace is complete and satisfies the AIR built from the public inputs given
CDSAirSatisfied == prog = "cds" /\ pc = "done" /\ failed = {} /\ transBad = {}

\* the point of the first register group at the last row of the cycle of voter v
CDSFinalPoint(v) == PointAt(kept[2 * v], 0)

\* the fifth block of the output of voter v
CDSOutputTail(v) ==
    SubSeq(pub.outputs[v], 4 * AFFINE_POINT_WIDTH + 1, 5 * AFFINE_POINT_WIDTH)

\* x and z are zero: the identity among the points of the curve
IsIdentity(P) == Coord(P, 0) = <<0, 0>> /\ Coord(P, 2) = <<0, 0>>

\* c - d1 - d2 of voter v, modulo the order of the group
CDSChallengeGap(v) ==
    (ScalarFromBits(wit.items[v].c_words) + 2 * GROUP_ORDER
        - wit.proof_scalars[v][1] - wit.proof_scalars[v][2]) % GROUP_ORDER

\* C2 as stated: in a trace that satisfies the AIR, the point of the first register
\* group at the last row of each cycle is the identity.
C2_FinalPointIsIdentity ==
    CDSAirSatisfied => \A v \in 1..CDSItems : IsIdentity(CDSFinalPoint(v))

\* C2, amended: in a trace that satisfies the AIR, the x and z coordinates of the point
\* of the first register group at the last row of each cycle are the fifth block of
\* that cycle's output; the point is the identity exactly when c = d1 + d2 modulo the
\* group order, which is exactly when that block is zero.
C2_FinalPointIsTheOutput ==
    CDSAirSatisfied =>
        \A v \in 1..CDSItems :
            /\ Coord(CDSFinalPoint(v), 0) \o Coord(CDSFinalPoint(v), 2) = CDSOutputTail(v)
            /\ IsIdentity(CDSFinalPoint(v)) <=> CDSChallengeGap(v) = 0
            /\ IsIdentity(CDSFinalPoint(v))
                    <=> CDSOutputTail(v) = Zeros(AFFINE_POINT_WIDTH)

C2_Witness ==
    /\ CDSAirSatisfied
    /\ wit.defect[1] = "scalar" /\ wit.defect[2] = 2 /\ wit.defect[3] = 1
    /\ CDSChallengeGap(2) # 0
    /\ CDSOutputTail(2) # Zeros(AFFINE_POINT_WIDTH)
    /\ IsIdentity(CDSFinalPoint(1))

\* the limb registers of a row
CDSLimbs(row) == SubSeq(row, C_LIMBS + 1, C_LIMBS + 4)

\* C3: at every row r < SCALAR_MUL_LENGTH of a cycle, the limb register the trace
\* accumulates the challenge bit into on a doubling step is the one whose
\* hash_digest_register_flag is 1 at row r, and the other limbs, and all limbs on an
\* addition step, are copied; at row SCALAR_MUL_LENGTH the limbs are the four words of
\* the challenge, limb i equals hash register i, and the transition out of that row
\* satisfies the AIR.
C3_LimbsFollowDigestFlags ==
    (prog = "cds" /\ pc = "fill" /\ wit.fault[1] = "none" /\ step >= 1) =>
        /\ step <= SCALAR_MUL_LENGTH =>
            \A j \in 0..3 :
                cur[C_LIMBS + j + 1] =
                    IF (step - 1) % 2 = 0 /\ hash_digest_register_flag(3 - j, step - 1) = 1
                    THEN FAdd(FMul(2, prev[C_LIMBS + j + 1]), cur[C_BIT + 1])
                    ELSE prev[C_LIMBS + j + 1]
        /\ step = SCALAR_MUL_LENGTH =>
            /\ CDSLimbs(cur) = wit.items[cycle + 1].c_words
            /\ CDSLimbs(cur) = SubSeq(cur, CDS_HASH + 1, CDS_HASH + 4)
        /\ step = SCALAR_MUL_LENGTH + 1 =>
            CDSRow(cycle, SCALAR_MUL_LENGTH) \notin transBad

C3_Witness ==
    /\ prog = "cds" /\ pc = "fill" /\ wit.fault[1] = "none"
    /\ cycle = 1 /\ step = SCALAR_MUL_LENGTH
    /\ CDSLimbs(cur) = wit.items[2].c_words
    /\ \A j \in 1..4 : CDSLimbs(cur)[j] > 1

\* C7: with one element of one entry of the proofs or of the outputs of the public
\* inputs raised by one, the trace of the honest witness violates the AIR: a changed
\* output fails a boundary assertion, a changed proof element fails a transition
\* constraint through the periodic columns.
C7_ChangedCDSInputFailsAir ==
    (prog = "cds" /\ pc = "done" /\ wit.fault[1] # "none") =>
        /\ wit.fault[1] = "output" => failed # {}
        /\ wit.fault[1] = "proof" => transBad # {}

C7_Witness ==
    /\ prog = "cds" /\ pc = "done"
    /\ wit.fault[1] = "proof"
    /\ wit.fault[3] = 6 * AFFINE_POINT_WIDTH
    /\ transBad # {} /\ failed # {}

\* ------------------------------------------------------------------------
\* Tally: properties
\* ------------------------------------------------------------------------

\* the cells of the END OF TRACE assertions
TallyEndCells == {<<i, Len(wit.encrypted_votes) - 1>> : i \in 0..(AFFINE_POINT_WIDTH - 1)}

\* C4: for N votes (N >= 2 a power of two) and a tally t <= N, the trace is built, its
\* first row is (N - 2t) * G, every transition constraint and start assertion holds,
\* and the last of its N rows is the negation of the last vote (no end assertion
\* fails) exactly when the sum of the votes is (2t - N) * G, as
\* naive_verify_tally_result computes it.
C4_TallyEndsAtLastVoteIffSum ==
    prog = "tally" =>
        /\ pc # "abort"
        /\ transBad = {}
        /\ failed \subseteq TallyEndCells
        /\ pc # "start" =>
            kept[1] = ScaledGenerator(ScalarMinusDouble(Len(wit.encrypted_votes),
                                                        wit.tally_result))
        /\ pc = "done" =>
            /\ nrows = Len(wit.encrypted_votes)
            /\ (failed = {}) <=> wit.accepted
            /\ (SubSeq(cur, 1, AFFINE_POINT_WIDTH)
                    = compute_negation(wit.encrypted_votes[Len(wit.encrypted_votes)]))
                <=> wit.accepted

C4_Witness ==
    /\ prog = "tally" /\ pc = "done"
    /\ Len(wit.encrypted_votes) = 4
    /\ wit.tally_result = 3
    /\ wit.accepted
    /\ failed = {}

\* ------------------------------------------------------------------------
\* Vote encryption: properties
\* ------------------------------------------------------------------------

\* the number of yes votes cast
YesVotes == Cardinality({i \in 1..Len(kept) : kept[i].vote})

\* the sum of the secret keys of the voters before i minus those after i, modulo the
\* order of the group
BlindingScalar(i) ==
    LET term[j \in 0..Len(wit.secret_keys)] ==
            IF j = 0 THEN 0
            ELSE (term[j - 1] + (IF j < i THEN wit.secret_keys[j]
                                 ELSE IF j > i THEN GROUP_ORDER - wit.secret_keys[j]
                                 ELSE 0)) % GROUP_ORDER
    IN  term[Len(wit.secret_keys)]

\* the sum of the encrypted votes cast
VoteSum ==
    LET acc[j \in 0..Len(kept)] ==
            IF j = 0 THEN IDENTITY ELSE compute_add(acc[j - 1], kept[j].encrypted_vote)
    IN  acc[Len(kept)]

\* C5: the blinding key of voter i is (sum of vk_j, j < i) - (sum of vk_j, j > i), and
\* once the N >= 2 voters have voted, the sum of the encrypted votes
\* x_i * bk_i + G (yes) or x_i * bk_i - G (no) is (2t - N) * G, t the number of yes
\* votes.
C5_EncryptedVotesSumToTally ==
    prog = "vote" =>
        /\ \A i \in 1..Len(kept) :
              PointEq(kept[i].blinding_key,
                      ScalarMul(BlindingScalar(i), Projective(GENERATOR)))
        /\ pc = "done" =>
              /\ Len(kept) = Len(wit.voting_keys)
              /\ PointEq(VoteSum,
                         ScalarMul(DoubleMinusScalar(YesVotes, Len(kept)),
                                   Projective(GENERATOR)))

C5_Witness ==
    /\ prog = "vote" /\ pc = "done"
    /\ Len(kept) = 3
    /\ YesVotes = 2
    /\ \E i \in 1..3 : IsIdentity(kept[i].encrypted_vote)
    /\ ~IsIdentity(VoteSum)

\* ------------------------------------------------------------------------
\* Verifier and shapes: properties
\* ------------------------------------------------------------------------

\* C8: verify_register_proof, verify_cast_proof and verify_tally_result return Ok or
\* Err for every byte string and every tally result: none panics.
C8_VerifiersNeverPanic == prog = "verifier" => pc # "panic"

\* the item count is a power of two, at least 2, and the vectors of the witness have
\* the same length
MerkleShapeGood ==
    /\ Len(wit.branches) >= 2
    /\ IsPowerOfTwo(Len(wit.branches))
    /\ Len(wit.voting_keys) = Len(wit.branches)
    /\ Len(wit.hash_indices) = Len(wit.branches)

\* C9: build_trace writes no row of the trace when the item count is not a power of
\* two, is below 2, or the vectors of the witness differ in length.
C9_BadShapeWritesNoRow ==
    (prog = "merkle" /\ ~MerkleShapeGood) => nrows = 0

\* ------------------------------------------------------------------------
\* Fragments: properties
\* ------------------------------------------------------------------------

\* row st of fragment i as filling the fragments one after another computes it: the
\* init closure, or the update closure applied to the row before it
FragmentSequentialRow(i, st) ==
    IF st = 0 THEN FragmentInit(wit, i)
    ELSE FragmentUpdate(wit, i, st - 1,
                        kept.trace[i * FragmentLength(wit) + st])

CollectorAdded == prog = "collector" /\ pc = "returned" /\ prev.call = "add_encrypted_vote"

\* the CDS proof of the vote of the last call is valid for the voting key and the
\* blinding key the collector holds for its voter
CollectorVoteValid ==
    verify_cds_proof(prev.vote.voter_index,
                     Projective(prev.self.voting_keys[prev.vote.voter_index + 1]),
                     prev.self.blinding_keys[prev.vote.voter_index + 1],
                     prev.vote.encrypted_vote, prev.vote.proof_points,
                     prev.vote.proof_scalars)

\* the voter of the last call held a vote before the call
CollectorVoterHeld == prev.self.encrypted_votes[prev.vote.voter_index + 1] # None

\* C12: add_encrypted_vote returns Ok and stores the vote when its CDS proof is valid and
\* the voter holds no vote, and returns Err(InvalidEncryptedVote) and changes nothing when
\* the proof is invalid
C12_ValidVoteIsStored ==
    CollectorAdded =>
        /\ (CollectorVoteValid /\ ~CollectorVoterHeld) =>
                /\ cur.ret = "Ok"
                /\ kept = add_encrypted_vote_unchecked(prev.self, prev.vote)
        /\ ~CollectorVoteValid => (cur.ret = "InvalidEncryptedVote" /\ kept = prev.self)

\* C13: a submission for a voter that already holds a vote returns
\* Err(InvalidEncryptedVote) and changes neither that voter's vote, proof points and
\* proof scalars nor num_valid_votes
C13_FirstVoteIsKept ==
    (CollectorAdded /\ CollectorVoterHeld) =>
        /\ cur.ret = "InvalidEncryptedVote"
        /\ kept.encrypted_votes[prev.vote.voter_index + 1]
                = prev.self.encrypted_votes[prev.vote.voter_index + 1]
        /\ kept.proof_points[prev.vote.voter_index + 1]
                = prev.self.proof_points[prev.vote.voter_index + 1]
        /\ kept.proof_scalars[prev.vote.voter_index + 1]
                = prev.self.proof_scalars[prev.vote.voter_index + 1]
        /\ kept.num_valid_votes = prev.self.num_valid_votes

C13_Witness ==
    /\ CollectorAdded /\ CollectorVoterHeld /\ ~CollectorVoteValid
    /\ Some(projective_to_elements(prev.vote.encrypted_vote))
            # kept.encrypted_votes[prev.vote.voter_index + 1]

\* C17: num_valid_votes is the number of voters whose stored vote is Some;
\* get_cast_proof returns Err(NotEnoughEncryptedVotes) when some voter has no stored
\* vote, and builds a trace only when every voter has one
C17_CountMatchesStoredVotes ==
    prog = "collector" =>
        /\ kept.num_valid_votes
                = Cardinality({i \in 1..Len(kept.voting_keys) : kept.encrypted_votes[i] # None})
        /\ (pc = "returned" /\ prev.call = "get_cast_proof") =>
                /\ (\E i \in 1..Len(kept.voting_keys) : kept.encrypted_votes[i] = None)
                        => cur.ret = "NotEnoughEncryptedVotes"
                /\ cur.built => \A i \in 1..Len(kept.voting_keys) : kept.encrypted_votes[i] # None

C17_Witness ==
    /\ prog = "collector" /\ pc = "returned" /\ prev.call = "get_cast_proof"
    /\ cur.built /\ kept.num_valid_votes = 2

C17_WitnessNotEnough ==
    /\ prog = "collector" /\ pc = "returned" /\ prev.call = "get_cast_proof"
    /\ cur.ret = "NotEnoughEncryptedVotes" /\ kept.num_valid_votes = 1

\* ------------------------------------------------------------------------
\* Voter registrar: properties
\* ------------------------------------------------------------------------

\* the last call was add_registration
RegistarAdded == prog = "registar" /\ pc = "returned" /\ prev.call = "add_registration"

\* before the last call, the address of its registration was stored under another key
RegistarAddressTaken ==
    \E i \in 1..Len(prev.self.addresses) :
        /\ prev.self.addresses[i] = prev.registration.address
        /\ prev.self.voting_keys[i] # prev.registration.voting_key

\* the Merkle proof and the signature of the registration of the last call are valid
RegistarProofsValid ==
    /\ verify_merlke_proof(prev.self.elg_root, prev.registration.voting_key,
                           prev.registration.merkle_branch, prev.registration.hash_index)
    /\ verify_signature(prev.registration.voting_key, prev.registration.address,
                        prev.registration.signature)

\* the index the voting key of the last call was stored at before the call, 0 for none
RegistarKeyIndex == Position(prev.self.voting_keys, prev.registration.voting_key)

\* the entry of a registrar at index i
RegistarEntry(self, i) ==
    <<self.voting_keys[i], self.merkle_branches[i], self.hash_indices[i],
      self.signatures[i], self.addresses[i]>>

\* C14: a registration whose address is stored under a different voting key returns
\* Err(DuplicatedEthAddress), valid or not, and the registrations, dirty_flag and the
\* cached proof are unchanged
C14_DuplicatedAddressIsRefused ==
    (RegistarAdded /\ RegistarAddressTaken) =>
        (cur = "DuplicatedEthAddress" /\ kept = prev.self)

C14_Witness ==
    /\ RegistarAdded /\ RegistarAddressTaken /\ RegistarProofsValid
    /\ Len(kept.voting_keys) = 1 /\ kept.num_elg_voters = 2

\* C15: the number of stored registrations never exceeds num_elg_voters, the five
\* vectors have equal length, and a valid registration of a key not stored, submitted
\* when num_elg_voters registrations are stored, returns Err(TooManyRegistrations) and
\* changes nothing
C15_RegistrationsAreBounded ==
    prog = "registar" =>
        /\ Len(kept.voting_keys) <= kept.num_elg_voters
        /\ Len(kept.merkle_branches) = Len(kept.voting_keys)
        /\ Len(kept.hash_indices) = Len(kept.voting_keys)
        /\ Len(kept.signatures) = Len(kept.voting_keys)
        /\ Len(kept.addresses) = Len(kept.voting_keys)
        /\ (/\ RegistarAdded /\ RegistarProofsValid /\ ~RegistarAddressTaken
            /\ RegistarKeyIndex = 0
            /\ Len(prev.self.voting_keys) = prev.self.num_elg_voters)
                => (cur = "TooManyRegistrations" /\ kept = prev.self)

C15_Witness ==
    /\ RegistarAdded /\ RegistarProofsValid /\ ~RegistarAddressTaken
    /\ RegistarKeyIndex = 0
    /\ Len(prev.self.voting_keys) = 2 /\ prev.self.num_elg_voters = 2

\* C16: a valid registration of a voting key already stored overwrites that key's entry
\* in place, leaves the number of registrations and every other entry unchanged, and
\* sets dirty_flag
C16_ReRegistrationOverwrites ==
    (RegistarAdded /\ RegistarProofsValid /\ ~RegistarAddressTaken /\ RegistarKeyIndex # 0) =>
        /\ cur = "Ok"
        /\ Len(kept.voting_keys) = Len(prev.self.voting_keys)
        /\ Len(kept.merkle_branches) = Len(kept.voting_keys)
        /\ Len(kept.hash_indices) = Len(kept.voting_keys)
        /\ Len(kept.signatures) = Len(kept.voting_keys)
        /\ Len(kept.addresses) = Len(kept.voting_keys)
        /\ RegistarEntry(kept, RegistarKeyIndex)
                = <<prev.registration.voting_key, prev.registration.merkle_branch,
                    prev.registration.hash_index, prev.registration.signature,
                    prev.registration.address>>
        /\ \A i \in 1..Len(kept.voting_keys) :
                i # RegistarKeyIndex => RegistarEntry(kept, i) = RegistarEntry(prev.self, i)
        /\ kept.dirty_flag

C16_Witness ==
    /\ RegistarAdded /\ RegistarProofsValid /\ ~RegistarAddressTaken
    /\ RegistarKeyIndex = 1 /\ Len(prev.self.voting_keys) = 2
    /\ ~prev.self.dirty_flag
    /\ prev.self.hash_indices[1] # prev.registration.hash_index
    /\ prev.self.addresses[1] # prev.registration.address

\* ------------------------------------------------------------------------
\* Vote tallier: properties
\* ------------------------------------------------------------------------

\* the sum of the votes of the tallier is (2t - N) * G
TallierSumIs(t) ==
    PointEq(SumFrom(IDENTITY, kept.encrypted_votes, 1),
            ScalarMul(DoubleMinusScalar(t, Len(kept.encrypted_votes)), Projective(GENERATOR)))

\* C18: tally_votes takes at most N + 1 search steps; it returns Ok(t) for the t in 0..N
\* with sum of votes = (2t - N) * G and stores it, or Err(InvalidTallyResult) with
\* tally_result None when there is no such t; once a result is stored every call
\* returns it
C18_TallyFindsTheResult ==
    prog = "tallier" =>
        /\ step <= Len(kept.encrypted_votes) + 1
        /\ kept.tally_result # None =>
                /\ kept.tally_result[1] \in 0..Len(kept.encrypted_votes)
                /\ TallierSumIs(kept.tally_result[1])
        /\ (pc = "returned" /\ cur.ret = "Ok") =>
                /\ kept.tally_result = Some(cur.value)
                /\ \A t \in 0..Len(kept.encrypted_votes) : TallierSumIs(t) => t = cur.value
        /\ (pc = "returned" /\ cur.ret = "InvalidTallyResult") =>
                /\ kept.tally_result = None
                /\ \A t \in 0..Len(kept.encrypted_votes) : ~TallierSumIs(t)
        /\ (pc = "returned" /\ cur.stored) => cur.ret = "Ok"

C18_Witness ==
    /\ prog = "tallier" /\ pc = "returned" /\ cur.ret = "Ok" /\ cur.stored
    /\ Len(kept.encrypted_votes) = 4 /\ cur.value = 3 /\ step = 3

C18_WitnessInvalid ==
    /\ prog = "tallier" /\ pc = "returned" /\ cur.ret = "InvalidTallyResult"
    /\ step = Len(kept.encrypted_votes) + 1 /\ Len(kept.encrypted_votes) = 4

\* C19: verify_tally_result on N votes and t in 0..N returns Ok(true) exactly when the
\* sum of the votes is (2t - N) * G; for honest votes with yes votes it is Ok(true) for
\* that number and Ok(false) for every other
C19_VerifyAcceptsTheTallyOnly ==
    (prog = "tallier" /\ pc = "verified") =>
        /\ cur = <<"Ok", TallierSumIs(cycle)>>
        /\ wit.yes >= 0 => cur = <<"Ok", cycle = wit.yes>>

C19_Witness ==
    /\ prog = "tallier" /\ pc = "verified" /\ cur = <<"Ok", TRUE>>
    /\ Len(kept.encrypted_votes) = 4 /\ cycle = 1 /\ wit.yes = 1

C19_WitnessBlinded ==
    /\ prog = "tallier" /\ pc = "verified" /\ cur = <<"Ok", FALSE>>
    /\ wit.yes = 1 /\ cycle = 2
    /\ \A i \in 1..2 : kept.encrypted_votes[i] \notin {TallyPoints[s] : s \in TallyVoteChoices}

\* ------------------------------------------------------------------------
\* Cast proof check: properties
\* ------------------------------------------------------------------------

\* C20: verify_cast_proof on the voting-key bytes of the test and the precompile
\* (big-endian count, then the keys) and the bytes of get_cast_proof of an honest
\* collector passes the count check and returns Ok
C20_HonestCastProofIsRead ==
    (prog = "cast" /\ pc \notin {"new", "proved", "built"}) => pc = "ok"

\* ------------------------------------------------------------------------
\* Register proof bytes: properties
\* ------------------------------------------------------------------------

\* verify_register_proof has sliced bytes that the provers of get_register_proof wrote
RegistarProofSplit == prog = "registar" /\ pc = "verified" /\ pub # <<>>

\* C21: verify_register_proof splits the bytes get_register_proof returns where the
\* sections were written: the count is the number of registrations, the bytes up to
\* the second bound are the compact public inputs (count, keys, addresses, signatures),
\* the length read after them is the length of the Merkle proof, the two proofs are the
\* ones the provers returned, and the Merkle public inputs rebuilt from
\* root ++ count ++ keys carry the prover's root and the prover's keys in their order.
C21_RegisterProofIsSplitWhereWritten ==
    RegistarProofSplit =>
        /\ cur.status = "split"
        /\ cur.num_regs = Len(pub.voting_keys)
        /\ cur.schnorr_pub_inputs
              = compact_pub_inputs_bytes(pub.voting_keys, pub.addresses, pub.signatures)
        /\ cur.merkle_proof = pub.merkle_proof
        /\ cur.schnorr_proof = pub.schnorr_proof
        /\ cur.merkle_pub_inputs.tree_root = kept.elg_root
        /\ cur.merkle_pub_inputs.voting_keys = pub.voting_keys

\* two registrations and a three-byte Merkle proof have been split
C21_Witness ==
    /\ RegistarProofSplit
    /\ cur.status = "split"
    /\ cur.num_regs = 2
    /\ Len(cur.merkle_proof) = 3
    /\ cur.merkle_pub_inputs.voting_keys[1] # cur.merkle_pub_inputs.voting_keys[2]

\* ------------------------------------------------------------------------
\* Register proof cache: properties
\* ------------------------------------------------------------------------

\* get_register_proof has just returned
RegistarProofAsked == prog = "registar" /\ pc = "returned" /\ prev.call = "get_register_proof"

\* the compact public inputs of the registrations a registrar stores
RegistarCompactBytes(self) ==
    compact_pub_inputs_bytes(self.voting_keys, self.addresses, self.signatures)

\* bytes begins with prefix
BeginsWith(bytes, prefix) ==
    Len(bytes) >= Len(prefix) /\ \A i \in 1..Len(prefix) : bytes[i] = prefix[i]

\* C24: every Ok(bytes) of get_register_proof begins with the compact public inputs
\* (count, voting keys, addresses, signatures) of the registrations stored at the time
\* of the call, and a prover error leaves dirty_flag true and the cached bytes as they
\* were.
C24_ProofBytesAreCurrent ==
    RegistarProofAsked =>
        /\ cur = "Ok" => BeginsWith(air, RegistarCompactBytes(prev.self))
        /\ cur = "Prover" => /\ kept.dirty_flag
                             /\ kept.serialized_proof = prev.self.serialized_proof

\* the same, for a registrar that stores a registration
C24_CurrentOnceRegistered ==
    (RegistarProofAsked /\ Len(prev.self.voting_keys) > 0) =>
        /\ cur = "Ok" => BeginsWith(air, RegistarCompactBytes(prev.self))
        /\ cur = "Prover" => /\ kept.dirty_flag
                             /\ kept.serialized_proof = prev.self.serialized_proof

\* cached bytes were returned after a replacement had forced a second generation
C24_WitnessCached ==
    /\ RegistarProofAsked /\ cur = "Ok"
    /\ ~prev.self.dirty_flag
    /\ Len(prev.self.voting_keys) = 2
    /\ air = prev.self.serialized_proof

\* ------------------------------------------------------------------------
\* CDS public inputs derived from the trace: properties
\* ------------------------------------------------------------------------

\* get_pub_inputs has derived the outputs from the trace and they are given as derived
CDSDerived == prog = "cds" /\ pc = "done" /\ wit.fault[1] = "none"

\* the output of voter v is all zero
CDSOutputIsZero(v) == pub.outputs[v] = Zeros(5 * AFFINE_POINT_WIDTH)

\* C22: for every witness, valid or not, the END OF PHASE and END OF CYCLE assertions
\* built from the public inputs get_pub_inputs derives hold in the trace, and the
\* output of voter v is all zero exactly when proof v passes the naive check.
C22_DerivedInputsMeetTheTrace ==
    CDSDerived =>
        /\ CDSEndFailed(pub.proofs, pub.outputs, kept) = {}
        /\ \A v \in 1..CDSItems : CDSOutputIsZero(v) <=> wit.passes[v]

\* an invalid witness: the second proof fails by a point, the first passes
C22_Witness ==
    /\ CDSDerived
    /\ wit.defect[1] = "point" /\ wit.defect[2] = 2
    /\ wit.passes[1] /\ ~wit.passes[2]
    /\ CDSOutputIsZero(1) /\ ~CDSOutputIsZero(2)
    /\ CDSEndFailed(pub.proofs, pub.outputs, kept) = {}

\* an invalid witness: the first proof fails by a scalar
C22_WitnessScalar ==
    /\ CDSDerived
    /\ wit.defect[1] = "scalar" /\ wit.defect[2] = 1
    /\ ~wit.passes[1] /\ ~CDSOutputIsZero(1)

\* ------------------------------------------------------------------------
\* Voter index of a CDS cycle: properties
\* ------------------------------------------------------------------------

\* the element of the newest cycle differs from the one of voter j
IndexDiffersFrom(j) ==
    /\ kept[j] # kept[Len(kept)]
    /\ air[j] # air[Len(air)]

\* C25: in every batch the prover accepts, the voter-index element written into the
\* first hash register at the start of a cycle and pinned there by the AIR differs
\* from the element of every other voter of the batch (stated of each new cycle
\* against all earlier ones).
C25_VoterIndexElementsDiffer ==
    prog = "index" => \A j \in 1..(Len(kept) - 1) : IndexDiffersFrom(j)

\* the same, in batches of at most 256 proofs
C25_DifferUpTo256 ==
    (prog = "index" /\ wit <= 256) => \A j \in 1..(Len(kept) - 1) : IndexDiffersFrom(j)

\* a batch of 256 proofs has been started to the last cycle
C25_Witness256 == prog = "index" /\ wit = 256 /\ Len(kept) = 256

\* ------------------------------------------------------------------------
\* CDS constraint families and trace steps: properties
\* ------------------------------------------------------------------------

\* the update closure has just computed row `step` of a cycle from row step - 1, for
\* proofs the AIR is given as the prover holds them
CDSStepped == prog = "cds" /\ pc = "fill" /\ step > 0 /\ wit.fault[1] = "none"

CDSPointGroups == {"c_vk", "r_g", "r_bk", "d_vk", "d_ev", "hash"}

\* C23: at every row r of a cycle below CDS_CYCLE_LENGTH - 1 and for each register
\* group (the point of c, the two points of r, the two points of d, each challenge limb,
\* the hash state) the periodic flags activate at most one constraint family, and an
\* active family is the operation update_cds_verification_state has applied to the
\* group at step r: applied to row r it gives the registers of row r + 1.
C23_OneFamilyAndItIsTheStep ==
    CDSStepped =>
        LET r == step - 1
            active == CDSActiveFamilies(r)
            col == air[cycle + 1]
        IN  /\ r < CDS_CYCLE_LENGTH - 1
            /\ \A g \in CDSPointGroups :
                  /\ Cardinality(active[g]) <= 1
                  /\ \A family \in active[g] :
                        CDSFamilyResult(g, family, prev, r, col) = CDSGroupOf(g, cur)
            /\ \A j \in 0..3 :
                  /\ Cardinality(active.limbs[j]) <= 1
                  /\ \A family \in active.limbs[j] :
                        CDSLimbAfter(j, family, prev, cur) = cur[C_LIMBS + j + 1]

\* the final point addition of the second phase has been applied, with a challenge
\* that is not the sum of d1 and d2
C23_Witness ==
    /\ CDSStepped
    /\ step = NROWS_PER_PHASE + SCALAR_MUL_LENGTH + 1
    /\ CDSActiveFamilies(step - 1).c_vk = {"final"}
    /\ CDSActiveFamilies(step - 1).r_g = {"final"}
    /\ CDSActiveFamilies(step - 1).d_vk = {}
    /\ CDSActiveFamilies(step - 1).hash = {"copy"}
    /\ wit.defect[1] = "scalar"
    /\ PointAt(cur, 0) # PointAt(prev, 0)

\* a limb has taken a challenge bit while the other limbs were copied
C23_WitnessLimb ==
    /\ CDSStepped
    /\ CDSActiveFamilies(step - 1).limbs[3] = {"double_and_add"}
    /\ CDSActiveFamilies(step - 1).limbs[0] = {"copy_aside"}
    /\ CDSActiveFamilies(step - 1).hash = {"round"}
    /\ cur[C_LIMBS + 4] # prev[C_LIMBS + 4]

====
